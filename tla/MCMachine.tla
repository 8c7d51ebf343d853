------------------------------ MODULE MCMachine ------------------------------
(***************************************************************************)
(* Machine on an address space of 16 page tables of 16 pages of 8 bytes: a *)
(* page table maps 128 bytes where it maps 4 MB, the kernel's image is     *)
(* loaded at 16 where it is at 1 MB, and the video memory is at 8.         *)
(***************************************************************************)
EXTENDS Machine

MCIvt == [addr |-> 0, len |-> 3]

Ram(addr, len) == [addr |-> addr, len |-> len, available |-> TRUE]
Hole(addr, len) == [addr |-> addr, len |-> len, available |-> FALSE]
Low == Ram(0, 8)

Code(offset, size) == [magic |-> TRUE, code_offset |-> offset, code_size |-> size,
                       data_offset |-> offset + size, data_size |-> 3, entry_point |-> 129]
Hello == Code(0, 5)

Boot(map, upper, header, mod_start, mod_end) ==
  [magic |-> TRUE, has_mmap |-> TRUE, has_mods |-> mod_end > 0, mmap |-> map, upper |-> upper,
   mod_start |-> mod_start, mod_end |-> mod_end, header |-> header]

Plain(map) == Boot(map, 0, Hello, 0, 0)
With(header) == Boot(<<Low, Ram(16, 904)>>, 0, header, 40, 60)

(* Machines that start, and heaps to ask.                                  *)
Machines ==
  { Plain(<<Low, Hole(8, 8), Ram(16, 904)>>),
    Plain(<<Low, Ram(16, 60), Ram(208, 880)>>),         \* a chunk above the image
    Boot(<<Low, Ram(16, 640)>>, 0, Hello, 40, 60),      \* too little for a module
    Boot(<<Low, Ram(16, 1300)>>, 0, Hello, 40, 60),     \* strays meet a page table
    Boot(<<Low, Ram(16, 1300)>>, 0, Hello, 40, 118) }   \* kernel data across 4 MB

(* Maps and calls with which the machine does not start.                   *)
Stillborn ==
  { [Plain(<<Low>>) EXCEPT !.magic = FALSE],
    [Plain(<<Low>>) EXCEPT !.has_mmap = FALSE],
    Plain(<<Hole(0, 32)>>),                             \* nothing available
    Boot(<<Ram(16, 904)>>, 904, Hello, 0, 0),           \* the total is mem_upper
    Plain(<<Low, Ram(16, 904), Ram(2080, 1000)>>),      \* above 4 GB
    Plain(<<Low, Ram(16, 904), Ram(2080, 2048 + 7)>>),
    Plain(<<Ram(0, 8), Ram(8, 34), Ram(42, 34)>>),      \* the image to its end
    Plain(<<Ram(0, 15), Ram(15, 14), Ram(30, 12)>>),    \* below the image
    Plain(<<Low, Ram(16, 60), Ram(203, 885)>>),         \* not on a page boundary
    Plain(<<Low, Ram(16, 80)>>), Plain(<<Low, Ram(16, 120)>>), Plain(<<Low, Ram(16, 140)>>),
    Plain(<<Low, Ram(16, 216)>>), Plain(<<Low, Ram(16, 300)>>), Plain(<<Low, Ram(16, 536)>>),
    Boot(<<Low, Ram(16, 904)>>, 0, Hello, 0, 8) }       \* a module below the image

(* Headers on both sides of each condition of init_module.                 *)
Refused ==
  { [Hello EXCEPT !.magic = FALSE], [Hello EXCEPT !.code_size = 0],
    [Hello EXCEPT !.entry_point = 128], [Hello EXCEPT !.entry_point = 133],
    [Hello EXCEPT !.code_offset = 2], Code(0, 2041),
    [Hello EXCEPT !.code_offset = 2040, !.code_size = 12, !.entry_point = 130],
    [Hello EXCEPT !.data_size = 40, !.data_offset = 2020], [Hello EXCEPT !.data_offset = 21] }

Accepted ==
  { Hello,
    [Hello EXCEPT !.data_size = 39, !.data_offset = 2020],      \* over its own stack
    [Code(2, 9) EXCEPT !.data_offset = 2040, !.data_size = 12, !.entry_point = 138] }

MCBoots == Machines \cup Stillborn \cup {With(h) : h \in Refused \cup Accepted}

MCRequests == {<<2, 10>>, <<256, 9>>, <<1, 2039>>, <<1, 2047>>, <<1, 1600>>}

=============================================================================
