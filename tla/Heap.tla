-------------------------------- MODULE Heap --------------------------------
(***************************************************************************)
(* The small memory manager of src/src/mem.c.  mem holds the headers in    *)
(* the heap by offset; a header that was merged into its neighbour is dead *)
(* memory and leaves the domain, so a stale pointer shows.  heap_sem makes *)
(* each of rt_malloc and rt_free, and each part of rt_realloc between two  *)
(* uses of it, one step; between the parts other threads come in.  The     *)
(* threads free and reallocate blocks they hold.                           *)
(***************************************************************************)
EXTENDS Integers, FiniteSets, FiniteSetsExt, Functions

CONSTANTS
  Thread,            \* the callers
  RT_ALIGN_SIZE,     \* 8 in rtconfig.h
  mem_size_aligned,  \* size of the heap without its two outer headers
  Size               \* sizes asked for, in bytes

RT_ALIGN(n) == ((n + RT_ALIGN_SIZE - 1) \div RT_ALIGN_SIZE) * RT_ALIGN_SIZE

MIN_SIZE          == 12
MIN_SIZE_ALIGNED  == RT_ALIGN(MIN_SIZE)
SIZEOF_STRUCT_MEM == RT_ALIGN(12)
heap_end          == mem_size_aligned + SIZEOF_STRUCT_MEM
Offset            == 0 .. heap_end

\* No request is so large that aligning it wraps around in rt_size_t.
ASSUME HeapAssumption ==
  /\ RT_ALIGN_SIZE \in Nat \ {0} /\ Size \subseteq Nat
  /\ mem_size_aligned \in Nat /\ mem_size_aligned = RT_ALIGN(mem_size_aligned)
  /\ mem_size_aligned >= MIN_SIZE_ALIGNED

VARIABLES
  mem,        \* the headers: struct heap_mem without its magic
  lfree,      \* where rt_malloc starts to look
  used_mem,   \* statistics
  max_mem,
  held,       \* the blocks the threads hold, with the size they asked for
  moving      \* the rt_realloc calls that move a block
vars == <<mem, lfree, used_mem, max_mem, held, moving>>

Idle == [at |-> "idle"]

Header == [used : BOOLEAN, next : Offset, prev : Offset]

\* A call that still needs a new block, and one that copied to it.
Move == [at : {"malloc"}, from : Offset, size : Nat, had : Nat]
          \cup [at : {"free"}, from : Offset, size : Nat, to : Offset]

TypeOK ==
  /\ DOMAIN mem \subseteq Offset /\ mem \in [DOMAIN mem -> Header]
  /\ lfree \in Offset /\ used_mem \in Offset /\ max_mem \in Offset
  /\ DOMAIN held \subseteq Offset /\ held \in [DOMAIN held -> Nat]
  /\ moving \in [Thread -> {Idle} \cup Move]

\* rt_system_heap_init
Init ==
  /\ mem = [a \in {0, heap_end} |->
              IF a = 0 THEN [used |-> FALSE, next |-> heap_end, prev |-> 0]
                       ELSE [used |-> TRUE, next |-> heap_end, prev |-> heap_end]]
  /\ lfree = 0 /\ used_mem = 0 /\ max_mem = 0
  /\ held = [a \in {} |-> 0] /\ moving = [p \in Thread |-> Idle]

-----------------------------------------------------------------------------
(* Headers.  m is the chain of headers, h a record of mem and lfree.       *)

State == [mem |-> mem, lfree |-> lfree]

\* The size of a block without and with its header.
Data(m, a)  == m[a].next - a - SIZEOF_STRUCT_MEM
Total(m, a) == m[a].next - a

\* The block b becomes part of the block a before it.
Join(m, a, b) ==
  Restrict([m EXCEPT ![a].next = m[b].next, ![m[b].next].prev = a], DOMAIN m \ {b})

\* Fault: the lowest free pointer is left at a header that no longer exists.
PlugForwardStale(h, a) ==
  LET n == h.mem[a].next IN
  IF n # a /\ ~h.mem[n].used /\ n # heap_end
  THEN [mem |-> Join(h.mem, a, n), lfree |-> h.lfree]
  ELSE h

PlugForward(h, a) ==
  LET n == h.mem[a].next IN
  IF n # a /\ ~h.mem[n].used /\ n # heap_end
  THEN [mem |-> Join(h.mem, a, n), lfree |-> IF h.lfree = n THEN a ELSE h.lfree]
  ELSE h

\* Fault: only holes after the block are plugged.
PlugNotBackward(h, a) == h

PlugBackward(h, a) ==
  LET p == h.mem[a].prev IN
  IF p # a /\ ~h.mem[p].used
  THEN [mem |-> Join(h.mem, p, a), lfree |-> IF h.lfree = a THEN p ELSE h.lfree]
  ELSE h

plug_holes(h, a) == PlugBackward(PlugForward(h, a), a)

\* The block at a keeps size bytes of data, the rest becomes a free block.
\* The end of the heap does not learn its new neighbour.
Split(m, a, size) ==
  LET b == a + SIZEOF_STRUCT_MEM + size
      n == m[a].next
      c == [m EXCEPT ![a].next = b, ![n].prev = IF n # heap_end THEN b ELSE @]
  IN [o \in DOMAIN m \cup {b} |->
        IF o = b THEN [used |-> FALSE, next |-> n, prev |-> a] ELSE c[o]]

-----------------------------------------------------------------------------
(* rt_malloc *)

AtLeast(n) == IF RT_ALIGN(n) < MIN_SIZE_ALIGNED THEN MIN_SIZE_ALIGNED ELSE RT_ALIGN(n)

\* The free blocks the search from lfree upwards would stop at.
Fitting(h, size) ==
  {a \in DOMAIN h.mem : /\ a >= h.lfree /\ a < mem_size_aligned - size
                        /\ ~h.mem[a].used /\ Data(h.mem, a) >= size}

Splits(m, a, size) == Data(m, a) >= size + SIZEOF_STRUCT_MEM + MIN_SIZE_ALIGNED

\* The block a is taken, and lfree moved up to the next free block or the end.
Taken(h, a, size) ==
  LET s == IF Splits(h.mem, a, size) THEN Split(h.mem, a, size) ELSE h.mem
      m == [s EXCEPT ![a].used = TRUE]
      free == {b \in DOMAIN m : b >= a /\ ~m[b].used} \cup {heap_end}
  IN [mem |-> m, lfree |-> IF h.lfree = a THEN Min(free) ELSE h.lfree]

\* What the statistics add for the block.
Counted(m, a, size) ==
  IF Splits(m, a, size) THEN size + SIZEOF_STRUCT_MEM ELSE Total(m, a)

\* Allocates the block a for a request of n bytes.
Allocate(a, n) ==
  LET t == Taken(State, a, AtLeast(n))
      u == used_mem + Counted(mem, a, AtLeast(n))
  IN /\ mem' = t.mem /\ lfree' = t.lfree
     /\ used_mem' = u /\ max_mem' = IF max_mem < u THEN u ELSE max_mem

\* Whether and where the search finds a block for n bytes.
Refused(n) == RT_ALIGN(n) > mem_size_aligned \/ Fitting(State, AtLeast(n)) = {}
Found(n)   == Min(Fitting(State, AtLeast(n)))

\* A call with size 0 or without success changes nothing.
rt_malloc(n) ==
  /\ n > 0 /\ ~Refused(n)
  /\ Allocate(Found(n), n)
  /\ held' = [a \in DOMAIN held \cup {Found(n)} |-> IF a = Found(n) THEN n ELSE held[a]]
  /\ UNCHANGED moving

-----------------------------------------------------------------------------
(* rt_free *)

Freed(h, a) ==
  plug_holes([mem   |-> [h.mem EXCEPT ![a].used = FALSE],
              lfree |-> IF a < h.lfree THEN a ELSE h.lfree], a)

Release(a) ==
  LET f == Freed(State, a)
  IN /\ mem' = f.mem /\ lfree' = f.lfree
     /\ used_mem' = used_mem - Total(mem, a)
     /\ UNCHANGED max_mem

rt_free(a) ==
  /\ a \in DOMAIN held
  /\ Release(a)
  /\ held' = Restrict(held, DOMAIN held \ {a})
  /\ UNCHANGED moving

-----------------------------------------------------------------------------
(* rt_realloc.  A null pointer makes it rt_malloc; a block of the right    *)
(* size already is returned as it is.                                      *)

Shrink(a, n) ==
  LET size == Data(mem, a)
      s == Split(mem, a, RT_ALIGN(n))
      f == plug_holes([mem |-> s, lfree |-> lfree], s[a].next)
  IN /\ a \in DOMAIN held /\ RT_ALIGN(n) <= mem_size_aligned
     /\ RT_ALIGN(n) + SIZEOF_STRUCT_MEM + MIN_SIZE < size
     /\ mem' = f.mem /\ lfree' = f.lfree
     /\ used_mem' = used_mem - (size - RT_ALIGN(n))
     /\ held' = [held EXCEPT ![a] = n]
     /\ UNCHANGED <<max_mem, moving>>

\* heap_sem is given back and the block moved: rt_malloc, copy, rt_free.
rt_realloc(p, a, n) ==
  LET size == Data(mem, a) IN
  /\ moving[p] = Idle /\ a \in DOMAIN held /\ RT_ALIGN(n) <= mem_size_aligned
  /\ size # RT_ALIGN(n) /\ RT_ALIGN(n) + SIZEOF_STRUCT_MEM + MIN_SIZE >= size
  /\ held' = Restrict(held, DOMAIN held \ {a})
  /\ moving' = [moving EXCEPT ![p] = [at |-> "malloc", from |-> a, size |-> n, had |-> held[a]]]
  /\ UNCHANGED <<mem, lfree, used_mem, max_mem>>

\* The caller keeps the old block when there is no new one.
MoveRefused(p) ==
  LET m == moving[p] IN
  /\ m.at = "malloc" /\ (m.size = 0 \/ Refused(m.size))
  /\ held' = [a \in DOMAIN held \cup {m.from} |-> IF a = m.from THEN m.had ELSE held[a]]
  /\ moving' = [moving EXCEPT ![p] = Idle]
  /\ UNCHANGED <<mem, lfree, used_mem, max_mem>>

MoveMalloc(p) ==
  LET m == moving[p] IN
  /\ m.at = "malloc" /\ m.size > 0 /\ ~Refused(m.size)
  /\ Allocate(Found(m.size), m.size)
  /\ moving' = [moving EXCEPT ![p] = [at |-> "free", from |-> m.from, size |-> m.size,
                                      to |-> Found(m.size)]]
  /\ UNCHANGED held

\* Fault: the old block is not freed.
MoveLeaks(p) ==
  LET m == moving[p] IN
  /\ m.at = "free"
  /\ held' = [a \in DOMAIN held \cup {m.to} |-> IF a = m.to THEN m.size ELSE held[a]]
  /\ moving' = [moving EXCEPT ![p] = Idle]
  /\ UNCHANGED <<mem, lfree, used_mem, max_mem>>

MoveFree(p) ==
  LET m == moving[p] IN
  /\ m.at = "free"
  /\ Release(m.from)
  /\ held' = [a \in DOMAIN held \cup {m.to} |-> IF a = m.to THEN m.size ELSE held[a]]
  /\ moving' = [moving EXCEPT ![p] = Idle]

-----------------------------------------------------------------------------
Next ==
  \/ \E n \in Size : \/ rt_malloc(n)
                     \/ \E a \in DOMAIN held : Shrink(a, n) \/ \E p \in Thread : rt_realloc(p, a, n)
  \/ \E a \in DOMAIN held : rt_free(a)
  \/ \E p \in Thread : MoveRefused(p) \/ MoveMalloc(p) \/ MoveFree(p)

Spec == Init /\ [][Next]_vars

-----------------------------------------------------------------------------
(* Properties *)

Block == DOMAIN mem \ {heap_end}

\* The blocks tile the heap: every block ends where the next one begins and
\* the two point at each other, so that plug_holes never reads or writes
\* outside of a header, and no two free blocks are neighbours, on which
\* rt_malloc relies when it does not split.
Tiled ==
  /\ TypeOK
  /\ {0, heap_end} \subseteq DOMAIN mem
  /\ mem[0].prev = 0 /\ mem[heap_end].used
  /\ \A a \in Block :
       /\ mem[a].next \in DOMAIN mem /\ mem[a].next >= a + SIZEOF_STRUCT_MEM
       /\ \A b \in DOMAIN mem : b <= a \/ b >= mem[a].next
       /\ mem[a].next # heap_end => mem[mem[a].next].prev = a
       /\ a # 0 => mem[a].prev \in Block /\ mem[mem[a].prev].next = a
       /\ mem[a].used \/ mem[mem[a].next].used

\* The search starts at a free block or at the end of the heap, the assertion
\* of rt_malloc, whatever was merged or split since lfree was set.
LfreeUsable == lfree \in DOMAIN mem /\ (lfree = heap_end \/ ~mem[lfree].used)

\* The blocks a call of rt_realloc is busy with.
Busy(p) ==
  CASE moving[p].at = "idle"   -> {}
    [] moving[p].at = "malloc" -> {moving[p].from}
    [] moving[p].at = "free"   -> {moving[p].from, moving[p].to}

\* The bytes of the used blocks, headers included.
UsedBytes == {o \in Offset : \E a \in Block : mem[a].used /\ a <= o /\ o < mem[a].next}

\* Every used block belongs to exactly one caller, also while rt_realloc has
\* given the heap back to the other threads, and is as large as was asked for:
\* no block leaks, is shared or is cut short.  The statistics count the bytes
\* of exactly these blocks.
Owned ==
  /\ {a \in Block : mem[a].used} = DOMAIN held \cup UNION {Busy(p) : p \in Thread}
  /\ \A p \in Thread :
       /\ Busy(p) \cap DOMAIN held = {}
       /\ \A q \in Thread \ {p} : Busy(p) \cap Busy(q) = {}
       /\ moving[p].at = "free" => /\ moving[p].from # moving[p].to
                                   /\ Data(mem, moving[p].to) >= moving[p].size
  /\ \A a \in DOMAIN held : Data(mem, a) >= held[a]
  /\ used_mem = Cardinality(UsedBytes) /\ used_mem <= max_mem
=============================================================================
