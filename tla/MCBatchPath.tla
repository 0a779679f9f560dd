---------------------------- MODULE MCBatchPath ----------------------------
(***************************************************************************)
(* BatchPath for TLC: two ranks and mini-batches of one to three rows per  *)
(* rank, up to MaxRows rows; Cap divides by some of the sizes and not by   *)
(* others.  Lengths only matter for dynamic sizes, where a micro-batch     *)
(* takes as many tokens as a row is wide, two more, or (Wide) one less,    *)
(* with padding and without.  Larger parts, of four rows, are cut in       *)
(* batches of eight rows that need no filling up.                          *)
(***************************************************************************)
EXTENDS BatchPath

CONSTANTS MaxRows, MaxLen

Batches(n, l) == UNION {[1 .. k -> 1 .. l] : k \in 1 .. n}

Shapes(sizes) == {c \in [mini : sizes, micro : sizes, lp_micro : 1 .. 2,
                         mm : BOOLEAN, padding : BOOLEAN] : c.mini % c.micro = 0}

With(c, lens, dynamic, width, max) ==
  [mini |-> c.mini, micro |-> c.micro, lp_micro |-> c.lp_micro, mm |-> c.mm,
   padding |-> c.padding, lens |-> lens, dynamic |-> dynamic, width |-> width,
   max_token_len |-> max]

Fixed == {With(c, lens, FALSE, MaxLen, 1) : c \in Shapes(1 .. 3), lens \in Batches(MaxRows, 1)}

Plain(sizes) == {c \in Shapes(sizes) : c.micro = c.mini /\ c.lp_micro = 1}

Dynamic(sizes, batches) ==
  {With(c, lens, TRUE, MaxLen, max) :
     c \in {s \in Plain(sizes) : ~s.padding},
     lens \in batches, max \in {MaxLen, MaxLen + 2}}

Wide ==
  {With(c, lens, TRUE, MaxLen + 1, max) :
     c \in Plain(1 .. 2), lens \in Batches(3, 2), max \in {MaxLen, MaxLen + 1}}

Eight == {lens \o rest : lens \in [1 .. 4 -> 1 .. MaxLen],
                         rest \in {<<1, 1, 1, 1>>, <<1, 3, 2, 2>>}}

MCConfigs == Fixed \cup Wide \cup Dynamic(1 .. 3, Batches(MaxRows - 1, MaxLen))
                   \cup Dynamic({4}, Eight)
=============================================================================
