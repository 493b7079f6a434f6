----------------------- MODULE HoldingsHistory_proofs -----------------------
(***************************************************************************)
(* Theorems about HoldingsHistory, for any ETFs, dates and contents.       *)
(***************************************************************************)
EXTENDS HoldingsHistory, FiniteSetTheorems, TLAPS

RowSets == UNION {[E -> Contents] : E \in SUBSET Etfs}
Counts == UNION {[D -> Nat \ {0}] : D \in SUBSET Dates}
Memory == [pc : Phases, incoming : Histories, refresh : SUBSET Snapshots, counts : Counts,
           todo : SUBSET Dates, stored : Histories, next : Histories]

\* What a command goes through, or writes, is not empty.
CommandsInv ==
    /\ cmd \in [Commands -> Memory]
    /\ \A c \in Commands :
         /\ cmd[c].pc \in {"partitions", "open_partition", "write_partition"} => cmd[c].todo # {}
         /\ cmd[c].pc \in WritePhases => DOMAIN cmd[c].next # {}

\* A manifest lists some date, and each with some record.
TypeInv ==
    /\ partition \in [Dates -> {Absent, Garbled} \union {File(rows) : rows \in RowSets}]
    /\ manifest \in {Absent, Garbled} \union {File(f) : f \in {g \in Counts : DOMAIN g # {}}}
    /\ CommandsInv
    /\ known \in Histories
    /\ offered \subseteq Snapshots \X Contents \X BOOLEAN
    /\ interrupted \in BOOLEAN

-----------------------------------------------------------------------------
(* What is computed *)

LEMMA Kinds ==
    /\ \A f : f \in Histories <=> Partial(f, Snapshots, Contents)
    /\ \A f : f \in RowSets <=> Partial(f, Etfs, Contents)
    /\ \A f : f \in Counts <=> Partial(f, Dates, Nat \ {0})
BY DEF Histories, RowSets, Counts, Partial

LEMMA NothingIsEmpty ==
    /\ DOMAIN Nothing = {}
    /\ Nothing \in Histories /\ Nothing \in RowSets /\ Nothing \in Counts
    /\ \A f \in Histories : DOMAIN f = {} => f = Nothing
    /\ \A f \in RowSets : DOMAIN f = {} => f = Nothing
<1>1. DOMAIN Nothing = {} /\ Nothing = [x \in {} |-> x]
  BY DEF Nothing
<1>2. \A f, T : f \in [DOMAIN f -> T] /\ DOMAIN f = {} => f = Nothing
  BY <1>1
<1> QED
  BY <1>1, <1>2, Kinds DEF Partial

\* The naturals are well founded: any of them have a least one.
Below == {p \in Nat \X Nat : p[1] < p[2]}

LEMMA Least ==
    ASSUME NEW T, T \subseteq Nat, T # {}
    PROVE  \E x \in T : \A y \in T : x =< y
<1>1. IsWellFoundedOn(Below, Nat)
  BY NatLessThanWellFounded, Zenon DEF OpToRel, Below
<1>2. \E x \in T : \A y \in T : ~ (<<y, x>> \in Below)
  BY <1>1, WFMin, Zenon
<1>3. PICK x \in T : \A y \in T : ~ (<<y, x>> \in Below)
  BY <1>2
<1>4. ASSUME NEW y \in T, y < x PROVE FALSE
  <2>1. <<y, x>> \in Nat \X Nat
    OBVIOUS
  <2>2. <<y, x>> \in Below
    BY <1>4, <2>1 DEF Below
  <2> QED
    BY <1>3, <2>2
<1>5. \A y \in T : x =< y
  BY <1>4
<1> QED
  BY <1>5

LEMMA LatestOfSome ==
    ASSUME NEW S, S \subseteq Dates, S # {}
    PROVE  Latest(S) \in S
<1> DEFINE T == {n \in Nat : MaxDate - n \in S}
<1>1. MaxDate \in Nat /\ \A d \in S : d \in Nat /\ MaxDate - d \in Nat
                                      /\ MaxDate - (MaxDate - d) = d
  BY BoundsAssumption DEF Dates
<1>2. T \subseteq Nat /\ T # {}
  BY <1>1
<1>3. \E n \in T : \A k \in T : n =< k
  <2> HIDE DEF T
  <2> QED
    BY <1>2, Least
<1>4. PICK n \in T : \A k \in T : n =< k
  BY <1>3
<1>5. \A d \in S : MaxDate - d \in T
  BY <1>1
<1>6. \A d \in S : d =< MaxDate - n
  <2>1. n \in Nat /\ \A d \in S : n =< MaxDate - d
    BY <1>4, <1>5
  <2> QED
    BY <1>1, <2>1
<1>7. MaxDate - n \in S
  OBVIOUS
<1> QED
  BY <1>6, <1>7 DEF Latest

LEMMA CountOfRows ==
    ASSUME NEW rows \in RowSets
    PROVE  /\ IsFiniteSet(Records(rows)) /\ RecordCount(rows) \in Nat
           /\ RecordCount(rows) = 0 <=> DOMAIN rows = {}
<1> DEFINE part(e) == {e} \X (1..RowCount[rows[e]])
           parts == {part(e) : e \in DOMAIN rows}
<1>1. DOMAIN rows \subseteq Etfs /\ \A e \in DOMAIN rows : RowCount[rows[e]] \in Nat \ {0}
  BY Kinds, RowCountAssumption DEF Partial
<1>2. IsFiniteSet(DOMAIN rows)
  BY <1>1, FS_Subset, BoundsAssumption
<1>3. \A e \in DOMAIN rows : IsFiniteSet(part(e)) /\ <<e, 1>> \in part(e)
  <2> SUFFICES ASSUME NEW e \in DOMAIN rows PROVE IsFiniteSet(part(e)) /\ <<e, 1>> \in part(e)
    OBVIOUS
  <2>1. RowCount[rows[e]] \in Int /\ 1 \in 1..RowCount[rows[e]]
    BY <1>1
  <2>2. IsFiniteSet(1..RowCount[rows[e]])
    BY <2>1, FS_Interval
  <2>3. IsFiniteSet({e})
    BY FS_Singleton
  <2> QED
    BY <2>1, <2>2, <2>3, FS_Product
<1>4. IsFiniteSet(parts)
  <2> HIDE DEF part
  <2> DEFINE f == [e \in DOMAIN rows |-> part(e)]
  <2>1. f \in Surjection(DOMAIN rows, parts)
    BY DEF Surjection
  <2> HIDE DEF f, parts
  <2> QED
    BY <1>2, <2>1, FS_Surjection
<1>5. IsFiniteSet(UNION parts)
  <2>1. \A T \in parts : IsFiniteSet(T)
    BY <1>3
  <2> HIDE DEF parts
  <2> QED
    BY <1>4, <2>1, FS_UNION
<1>6. UNION parts = {} <=> DOMAIN rows = {}
  <2>1. DOMAIN rows = {} => UNION parts = {}
    OBVIOUS
  <2>2. ASSUME NEW e \in DOMAIN rows PROVE UNION parts # {}
    <3>1. <<e, 1>> \in part(e) /\ part(e) \in parts
      BY <1>3
    <3> HIDE DEF part, parts
    <3> QED
      BY <3>1
  <2> QED
    BY <2>1, <2>2
<1>7. Records(rows) = UNION parts
  BY DEF Records
<1> HIDE DEF parts
<1> QED
  BY <1>5, <1>6, <1>7, FS_CardinalityType, FS_EmptySet DEF RecordCount

LEMMA RowsOfDate ==
    ASSUME NEW h \in Histories, NEW d
    PROVE  /\ RowsAt(h, d) \in RowSets
           /\ DOMAIN RowsAt(h, d) = {e \in Etfs : <<e, d>> \in DOMAIN h}
           /\ \A e \in DOMAIN RowsAt(h, d) : RowsAt(h, d)[e] = h[<<e, d>>]
           /\ d \in DatesOf(h) <=> DOMAIN RowsAt(h, d) # {}
<1>1. DOMAIN h \subseteq Snapshots /\ \A s \in DOMAIN h : h[s] \in Contents
  BY Kinds DEF Partial
<1>2. /\ DOMAIN RowsAt(h, d) = {e \in Etfs : <<e, d>> \in DOMAIN h}
      /\ \A e \in DOMAIN RowsAt(h, d) : RowsAt(h, d)[e] = h[<<e, d>>]
      /\ RowsAt(h, d) \in [DOMAIN RowsAt(h, d) -> Contents]
  BY <1>1 DEF RowsAt
<1>3. d \in DatesOf(h) <=> \E e \in Etfs : <<e, d>> \in DOMAIN h
  <2>1. \A s \in DOMAIN h : s[1] \in Etfs /\ s = <<s[1], s[2]>>
    BY <1>1 DEF Snapshots
  <2>2. \A e \in Etfs : <<e, d>>[2] = d
    OBVIOUS
  <2> QED
    BY <2>1, <2>2 DEF DatesOf
<1> QED
  BY <1>2, <1>3, Kinds DEF Partial

LEMMA DatesOfHistory ==
    ASSUME NEW h \in Histories
    PROVE  DatesOf(h) \subseteq Dates /\ (DatesOf(h) = {} <=> DOMAIN h = {})
BY Kinds DEF Partial, DatesOf, Snapshots

LEMMA CountsOfHistory ==
    ASSUME NEW h \in Histories
    PROVE  ManifestCounts(h) \in Counts /\ DOMAIN ManifestCounts(h) = DatesOf(h)
<1>1. \A d \in DatesOf(h) : RecordCount(RowsAt(h, d)) \in Nat \ {0}
  BY RowsOfDate, CountOfRows
<1> QED
  BY <1>1, Kinds, DatesOfHistory DEF ManifestCounts, Partial

LEMMA MergedHistory ==
    ASSUME NEW g \in Histories, NEW h \in Histories
    PROVE  /\ Merged(g, h) \in Histories
           /\ DOMAIN Merged(g, h) = DOMAIN g \union DOMAIN h
BY Kinds DEF Merged, Partial

LEMMA HistoryWithDate ==
    ASSUME NEW h \in Histories, NEW d \in Dates, NEW rows \in RowSets
    PROVE  /\ WithDate(h, d, rows) \in Histories
           /\ DOMAIN WithDate(h, d, rows) = DOMAIN h \union {<<e, d>> : e \in DOMAIN rows}
           /\ \A e \in DOMAIN rows : WithDate(h, d, rows)[<<e, d>>] = rows[e]
           /\ \A s \in DOMAIN h : s[2] # d => WithDate(h, d, rows)[s] = h[s]
<1> DEFINE read == {<<e, d>> : e \in DOMAIN rows}
           g == WithDate(h, d, rows)
<1>1. /\ DOMAIN h \subseteq Snapshots /\ \A s \in DOMAIN h : h[s] \in Contents
      /\ DOMAIN rows \subseteq Etfs /\ \A e \in DOMAIN rows : rows[e] \in Contents
  BY Kinds DEF Partial
<1>2. g = [s \in DOMAIN h \union read |-> IF s \in read THEN rows[s[1]] ELSE h[s]]
  BY DEF WithDate
<1>3. read \subseteq Snapshots /\ \A s \in read : s[1] \in DOMAIN rows /\ s[2] = d
  BY <1>1 DEF Snapshots
<1>4. \A s \in DOMAIN h \union read : g[s] \in Contents
  BY <1>1, <1>2, <1>3
<1>5. g \in Histories
  BY <1>1, <1>2, <1>3, <1>4, Kinds DEF Partial
<1>6. \A e \in DOMAIN rows : g[<<e, d>>] = rows[e]
  BY <1>2
<1>7. \A s \in DOMAIN h : s[2] # d => g[s] = h[s]
  BY <1>2, <1>3
<1> QED
  BY <1>2, <1>5, <1>6, <1>7

-----------------------------------------------------------------------------
(* Types *)

LEMMA IdleMemory ==
    Idle \in Memory /\ Idle.pc = "idle" /\ Idle.stored = Nothing /\ Idle.todo = {}
<1>1. "idle" \in Phases /\ {} \in SUBSET Snapshots /\ {} \in SUBSET Dates
  BY DEF Phases
<1>2. Nothing \in Histories /\ Nothing \in Counts
  BY NothingIsEmpty
<1> HIDE DEF Nothing, Histories, Snapshots, Dates, Phases, Counts
<1> QED
  BY <1>1, <1>2 DEF Idle, Memory

\* A command goes on to a memory of this kind; the others keep theirs.
LEMMA GoesOn ==
    ASSUME CommandsInv, NEW c \in Commands, NEW new \in Memory, cmd' = [cmd EXCEPT ![c] = new],
           new.pc \in {"partitions", "open_partition", "write_partition"} => new.todo # {},
           new.pc \in WritePhases => DOMAIN new.next # {}
    PROVE  /\ CommandsInv'
           /\ cmd'[c] = new /\ \A p \in Commands \ {c} : cmd'[p] = cmd[p]
<1>1. /\ cmd' \in [Commands -> Memory]
      /\ cmd'[c] = new /\ \A p \in Commands \ {c} : cmd'[p] = cmd[p]
  BY DEF CommandsInv
<1> QED
  BY <1>1 DEF CommandsInv

LEMMA Ends ==
    ASSUME CommandsInv, NEW c \in Commands, End(c)
    PROVE  CommandsInv' /\ cmd'[c] = Idle
BY IdleMemory, GoesOn DEF End, WritePhases

LEMMA TypeInit == Init => TypeInv
<1> SUFFICES ASSUME Init PROVE TypeInv
  OBVIOUS
<1>1. CommandsInv
  <2>1. cmd = [c \in Commands |-> Idle]
    BY DEF Init
  <2> HIDE DEF Idle
  <2> QED
    BY <2>1, IdleMemory DEF CommandsInv, WritePhases
<1>2. partition \in [Dates -> {Absent, Garbled} \union {File(rows) : rows \in RowSets}]
  BY DEF Init
<1> QED
  BY <1>1, <1>2, NothingIsEmpty DEF Init, TypeInv

LEMMA StartStep ==
    ASSUME CommandsInv, NEW c \in Commands, NEW a \in Arguments, Start(c, a.incoming, a.refresh)
    PROVE  /\ CommandsInv'
           /\ cmd'[c] = [cmd[c] EXCEPT !.pc = "manifest", !.incoming = a.incoming,
                                       !.refresh = a.refresh]
<1> DEFINE new == [cmd[c] EXCEPT !.pc = "manifest", !.incoming = a.incoming,
                                 !.refresh = a.refresh]
<1>1. a.incoming \in Histories /\ a.refresh \in SUBSET Snapshots
  BY DEF Arguments
<1>2. cmd[c] \in Memory /\ "manifest" \in Phases
  BY DEF CommandsInv, Phases
<1> HIDE DEF Histories, Snapshots, Phases
<1>3. new \in Memory /\ new.pc = "manifest"
  BY <1>1, <1>2 DEF Memory
<1>4. cmd' = [cmd EXCEPT ![c] = new]
  BY DEF Start, CommandsInv
<1> HIDE DEF new
<1>5. CommandsInv' /\ cmd'[c] = new
  BY <1>3, <1>4, GoesOn DEF WritePhases
<1> QED
  BY <1>5 DEF new

LEMMA ReadManifestStep ==
    ASSUME TypeInv, NEW c \in Commands, ReadManifest(c)
    PROVE  /\ CommandsInv'
           /\ \/ manifest.is = "absent" /\ cmd'[c] = [cmd[c] EXCEPT !.pc = "decide"]
              \/ cmd'[c] = Idle
              \/ /\ manifest = File(manifest.data)
                 /\ manifest.data \in Counts /\ DOMAIN manifest.data # {}
                 /\ cmd'[c] = [cmd[c] EXCEPT !.pc = "partitions", !.counts = manifest.data,
                                             !.todo = DOMAIN manifest.data]
<1> DEFINE none == [cmd[c] EXCEPT !.pc = "decide"]
           some == [cmd[c] EXCEPT !.pc = "partitions", !.counts = manifest.data,
                                  !.todo = DOMAIN manifest.data]
<1>1. CommandsInv /\ cmd[c] \in Memory /\ {"decide", "partitions"} \subseteq Phases
  BY DEF TypeInv, CommandsInv, Phases
<1>2. CASE manifest.is = "absent"
  <2>1. none \in Memory /\ none.pc = "decide"
    BY <1>1 DEF Memory
  <2>2. cmd' = [cmd EXCEPT ![c] = none]
    BY <1>1, <1>2 DEF ReadManifest, CommandsInv
  <2> HIDE DEF none
  <2>3. CommandsInv' /\ cmd'[c] = none
    BY <1>1, <2>1, <2>2, GoesOn DEF WritePhases
  <2> QED
    BY <1>2, <2>3 DEF none
<1>3. CASE manifest.is = "garbled"
  BY <1>1, <1>3, Ends DEF ReadManifest
<1>4. CASE manifest.is \notin {"absent", "garbled"}
  <2>1. /\ manifest = File(manifest.data) /\ manifest.data \in Counts
        /\ DOMAIN manifest.data # {}
    BY <1>4 DEF TypeInv, Absent, Garbled, File
  <2>2. DOMAIN manifest.data \in SUBSET Dates
    BY <2>1, Kinds DEF Partial
  <2>3. some \in Memory /\ some.pc = "partitions" /\ some.todo # {}
    <3> HIDE DEF Dates, Histories, Snapshots
    <3> QED
      BY <1>1, <2>1, <2>2 DEF Memory
  <2>4. cmd' = [cmd EXCEPT ![c] = some]
    BY <1>1, <1>4 DEF ReadManifest, CommandsInv
  <2> HIDE DEF some
  <2>5. CommandsInv' /\ cmd'[c] = some
    BY <1>1, <2>3, <2>4, GoesOn DEF WritePhases
  <2> QED
    BY <2>1, <2>5 DEF some
<1> QED
  BY <1>2, <1>3, <1>4

LEMMA ReadPartitionStep ==
    ASSUME TypeInv, NEW c \in Commands, ReadPartition(c)
    PROVE  /\ CommandsInv'
           /\ LET d == Latest(cmd[c].todo) IN
              /\ d \in cmd[c].todo /\ d \in Dates
              /\ \/ cmd'[c] = Idle
                 \/ /\ PartitionReadable(partition[d], cmd[c].counts[d])
                    /\ partition[d].data \in RowSets
                    /\ cmd'[c] = [cmd[c] EXCEPT
                          !.pc = IF cmd[c].todo = {d} THEN "decide" ELSE "partitions",
                          !.todo = @ \ {d}, !.stored = WithDate(@, d, partition[d].data)]
<1> DEFINE d == Latest(cmd[c].todo)
           new == [cmd[c] EXCEPT !.pc = IF cmd[c].todo = {d} THEN "decide" ELSE "partitions",
                      !.todo = @ \ {d}, !.stored = WithDate(@, d, partition[d].data)]
<1>1. CommandsInv /\ cmd[c] \in Memory /\ {"decide", "partitions"} \subseteq Phases
  BY DEF TypeInv, CommandsInv, Phases
<1>2. cmd[c].todo \subseteq Dates /\ cmd[c].todo # {} /\ cmd[c].stored \in Histories
  BY <1>1 DEF ReadPartition, Memory, CommandsInv
<1>3. d \in cmd[c].todo /\ d \in Dates
  BY <1>2, LatestOfSome
<1> HIDE DEF d
<1>4. CASE ~PartitionReadable(partition[d], cmd[c].counts[d])
  BY <1>1, <1>3, <1>4, Ends DEF ReadPartition, d
<1>5. CASE PartitionReadable(partition[d], cmd[c].counts[d])
  <2>1. partition[d].data \in RowSets
    BY <1>3, <1>5 DEF TypeInv, PartitionReadable, Absent, Garbled, File
  <2>2. WithDate(cmd[c].stored, d, partition[d].data) \in Histories
    BY <1>2, <1>3, <2>1, HistoryWithDate
  <2>3. /\ new \in Memory /\ new.pc \in {"decide", "partitions"}
        /\ new.pc = "partitions" => new.todo # {}
    <3> HIDE DEF Dates, Histories, Snapshots
    <3> QED
      BY <1>1, <1>2, <1>3, <2>2 DEF Memory
  <2>4. cmd' = [cmd EXCEPT ![c] = new]
    BY <1>1, <1>5 DEF ReadPartition, CommandsInv, d
  <2> HIDE DEF new
  <2>5. CommandsInv' /\ cmd'[c] = new
    BY <1>1, <2>3, <2>4, GoesOn DEF WritePhases
  <2> QED
    BY <1>3, <1>5, <2>1, <2>5 DEF new, d
<1> QED
  BY <1>4, <1>5

\* What goes on to write has a history to write, with what it brought.
Writes(m) ==
    /\ m.refresh \subseteq DOMAIN m.incoming
    /\ Conflicts(m.stored, m.incoming, m.refresh) = {}
    /\ Changed(m.stored, m.incoming) # {}

LEMMA DecideStep ==
    ASSUME CommandsInv, NEW c \in Commands, Decide(c)
    PROVE  /\ CommandsInv'
           /\ cmd'[c] = IF Writes(cmd[c])
                        THEN [cmd[c] EXCEPT
                                !.pc = "open_partition",
                                !.next = Merged(cmd[c].stored, cmd[c].incoming),
                                !.todo = DatesOf(Merged(cmd[c].stored, cmd[c].incoming))]
                        ELSE Idle
<1> DEFINE m == cmd[c]
           next == Merged(m.stored, m.incoming)
           new == [m EXCEPT !.pc = "open_partition", !.next = next, !.todo = DatesOf(next)]
<1>1. m \in Memory /\ "open_partition" \in Phases
  BY DEF CommandsInv, Phases
<1>2. m.stored \in Histories /\ m.incoming \in Histories
  BY <1>1 DEF Memory
<1>3. CASE Writes(m)
  <2>1. next \in Histories /\ DOMAIN next = DOMAIN m.stored \union DOMAIN m.incoming
    BY <1>2, MergedHistory
  <2>2. DOMAIN m.incoming # {}
    BY <1>3 DEF Writes, Changed
  <2>3. DatesOf(next) \subseteq Dates /\ DatesOf(next) # {}
    BY <2>1, <2>2, DatesOfHistory
  <2>4. cmd' = [cmd EXCEPT ![c] = new]
    <3>1. cmd' = [cmd EXCEPT ![c].pc = "open_partition", ![c].next = next,
                             ![c].todo = DatesOf(next)]
      BY <1>3 DEF Decide, Writes
    <3> HIDE DEF next
    <3> QED
      BY <1>1, <3>1 DEF CommandsInv
  <2> HIDE DEF next
  <2>5. new \in Memory /\ new.pc = "open_partition" /\ new.next = next /\ new.todo # {}
    <3> HIDE DEF Dates, Histories, Snapshots
    <3> QED
      BY <1>1, <2>1, <2>3 DEF Memory
  <2> HIDE DEF new
  <2>6. CommandsInv' /\ cmd'[c] = new
    BY <2>1, <2>2, <2>4, <2>5, GoesOn
  <2> QED
    BY <1>3, <2>6 DEF new, next
<1>4. CASE ~Writes(m)
  <2>1. End(c)
    BY <1>4 DEF Decide, Writes
  <2> QED
    BY <1>4, <2>1, Ends
<1> QED
  BY <1>3, <1>4

LEMMA OpenPartitionStep ==
    ASSUME CommandsInv, NEW c \in Commands, OpenPartition(c)
    PROVE  /\ CommandsInv'
           /\ cmd'[c] = [cmd[c] EXCEPT !.pc = "write_partition"]
           /\ Latest(cmd[c].todo) \in cmd[c].todo /\ Latest(cmd[c].todo) \in Dates
<1> DEFINE new == [cmd[c] EXCEPT !.pc = "write_partition"]
<1>1. cmd[c] \in Memory /\ "write_partition" \in Phases
  BY DEF CommandsInv, Phases
<1>2. cmd[c].todo \subseteq Dates /\ cmd[c].todo # {} /\ DOMAIN cmd[c].next # {}
  BY <1>1 DEF OpenPartition, Memory, CommandsInv, WritePhases
<1>3. new \in Memory /\ new.pc = "write_partition" /\ new.todo # {} /\ DOMAIN new.next # {}
  <2> HIDE DEF Dates, Histories, Snapshots
  <2> QED
    BY <1>1, <1>2 DEF Memory
<1>4. cmd' = [cmd EXCEPT ![c] = new]
  BY <1>1 DEF OpenPartition, CommandsInv
<1> HIDE DEF new
<1>5. CommandsInv' /\ cmd'[c] = new
  BY <1>3, <1>4, GoesOn
<1> QED
  BY <1>2, <1>5, LatestOfSome DEF new

LEMMA WritePartitionStep ==
    ASSUME CommandsInv, NEW c \in Commands, WritePartition(c)
    PROVE  /\ CommandsInv'
           /\ LET d == Latest(cmd[c].todo) IN
              /\ d \in cmd[c].todo /\ d \in Dates
              /\ cmd'[c] = [cmd[c] EXCEPT
                    !.pc = IF cmd[c].todo = {d} THEN "open_manifest" ELSE "open_partition",
                    !.todo = @ \ {d}]
<1> DEFINE d == Latest(cmd[c].todo)
           new == [cmd[c] EXCEPT
                    !.pc = IF cmd[c].todo = {d} THEN "open_manifest" ELSE "open_partition",
                    !.todo = @ \ {d}]
<1>1. cmd[c] \in Memory /\ {"open_manifest", "open_partition"} \subseteq Phases
  BY DEF CommandsInv, Phases
<1>2. cmd[c].todo \subseteq Dates /\ cmd[c].todo # {} /\ DOMAIN cmd[c].next # {}
  BY <1>1 DEF WritePartition, Memory, CommandsInv, WritePhases
<1>3. d \in cmd[c].todo /\ d \in Dates
  BY <1>2, LatestOfSome
<1> HIDE DEF d
<1>4. /\ new \in Memory /\ new.pc \in {"open_manifest", "open_partition"}
      /\ new.pc = "open_partition" => new.todo # {}
      /\ DOMAIN new.next # {}
  <2> HIDE DEF Dates, Histories, Snapshots
  <2> QED
    BY <1>1, <1>2, <1>3 DEF Memory
<1>5. cmd' = [cmd EXCEPT ![c] = new]
  BY <1>1 DEF WritePartition, CommandsInv, d
<1> HIDE DEF new
<1>6. CommandsInv' /\ cmd'[c] = new
  BY <1>4, <1>5, GoesOn
<1> QED
  BY <1>3, <1>6 DEF new, d

LEMMA OpenManifestStep ==
    ASSUME CommandsInv, NEW c \in Commands, OpenManifest(c)
    PROVE  CommandsInv' /\ cmd'[c] = [cmd[c] EXCEPT !.pc = "write_manifest"]
<1> DEFINE new == [cmd[c] EXCEPT !.pc = "write_manifest"]
<1>1. cmd[c] \in Memory /\ "write_manifest" \in Phases /\ DOMAIN cmd[c].next # {}
  BY DEF OpenManifest, CommandsInv, Phases, WritePhases
<1>2. new \in Memory /\ new.pc = "write_manifest" /\ DOMAIN new.next # {}
  <2> HIDE DEF Dates, Histories, Snapshots
  <2> QED
    BY <1>1 DEF Memory
<1>3. cmd' = [cmd EXCEPT ![c] = new]
  BY <1>1 DEF OpenManifest, CommandsInv
<1> HIDE DEF new
<1>4. CommandsInv' /\ cmd'[c] = new
  BY <1>2, <1>3, GoesOn
<1> QED
  BY <1>4 DEF new

\* The rows of a new file, and the counts of a new manifest.
LEMMA Written ==
    ASSUME CommandsInv, NEW c \in Commands, cmd[c].pc \in WritePhases, NEW d
    PROVE  /\ cmd[c].next \in Histories /\ RowsAt(cmd[c].next, d) \in RowSets
           /\ ManifestCounts(cmd[c].next) \in Counts
           /\ DOMAIN ManifestCounts(cmd[c].next) # {}
<1>1. cmd[c].next \in Histories /\ DOMAIN cmd[c].next # {}
  BY DEF CommandsInv, Memory
<1> QED
  BY <1>1, RowsOfDate, CountsOfHistory, DatesOfHistory

LEMMA TypeNext ==
    ASSUME TypeInv, [Next]_vars
    PROVE  TypeInv'
<1> DEFINE Partitions == {Absent, Garbled} \union {File(rows) : rows \in RowSets}
           Manifests == {Absent, Garbled} \union {File(f) : f \in {g \in Counts : DOMAIN g # {}}}
           Observed == /\ known \in Histories
                       /\ offered \subseteq Snapshots \X Contents \X BOOLEAN
                       /\ interrupted \in BOOLEAN
<1>1. /\ partition \in [Dates -> Partitions] /\ manifest \in Manifests
      /\ CommandsInv /\ Observed
  BY DEF TypeInv
<1>2. ASSUME partition' \in [Dates -> Partitions], manifest' \in Manifests, CommandsInv', Observed'
      PROVE  TypeInv'
  BY <1>2 DEF TypeInv
<1>3. Truncated \in Partitions /\ Garbled \in Partitions /\ Garbled \in Manifests
  BY NothingIsEmpty DEF Truncated
<1>4. \A p \in Commands : cmd[p] \in Memory
  BY <1>1 DEF CommandsInv
<1> HIDE DEF Partitions, Manifests
<1>o. ASSUME UNCHANGED <<known, offered, interrupted>> PROVE Observed'
  BY <1>1, <1>o
<1>f. ASSUME UNCHANGED <<partition, manifest>>
      PROVE  partition' \in [Dates -> Partitions] /\ manifest' \in Manifests
  BY <1>1, <1>f
<1> HIDE DEF Observed
<1>5. ASSUME NEW c \in Commands, NEW a \in Arguments, Start(c, a.incoming, a.refresh)
      PROVE  TypeInv'
  <2>1. CommandsInv'
    BY <1>1, <1>5, StartStep
  <2>2. UNCHANGED <<partition, manifest, known, offered, interrupted>>
    BY <1>5 DEF Start
  <2> QED
    BY <1>2, <1>f, <1>o, <2>1, <2>2
<1>6. ASSUME NEW c \in Commands, ReadManifest(c) \/ ReadPartition(c) PROVE TypeInv'
  <2>1. CASE ReadManifest(c)
    <3>1. CommandsInv'
      BY <2>1, ReadManifestStep
    <3>2. UNCHANGED <<partition, manifest, known, offered, interrupted>>
      BY <2>1, Zenon DEF ReadManifest
    <3> QED
      BY <1>2, <1>f, <1>o, <3>1, <3>2
  <2>2. CASE ReadPartition(c)
    <3>1. CommandsInv'
      BY <2>2, ReadPartitionStep
    <3>2. UNCHANGED <<partition, manifest, known, offered, interrupted>>
      BY <2>2, Zenon DEF ReadPartition
    <3> QED
      BY <1>2, <1>f, <1>o, <3>1, <3>2
  <2> QED
    BY <1>6, <2>1, <2>2
<1>7. ASSUME NEW c \in Commands, Decide(c) PROVE TypeInv'
  <2>1. CommandsInv' /\ UNCHANGED <<partition, manifest, interrupted>> /\ known' = cmd[c].stored
    BY <1>1, <1>7, DecideStep DEF Decide
  <2>2. known' \in Histories
    BY <1>4, <2>1 DEF Memory
  <2>3. \A q \in Commands : Offers(cmd[q]) \subseteq Snapshots \X Contents \X BOOLEAN
    <3> SUFFICES ASSUME NEW q \in Commands, NEW x \in Offers(cmd[q])
                 PROVE  x \in Snapshots \X Contents \X BOOLEAN
      BY Zenon
    <3>1. PICK s \in DOMAIN cmd[q].incoming :
             x = <<s, cmd[q].incoming[s], s \in cmd[q].refresh>>
      BY Zenon DEF Offers
    <3>2. (s \in cmd[q].refresh) \in BOOLEAN
      OBVIOUS
    <3>3. PICK r \in BOOLEAN : x = <<s, cmd[q].incoming[s], r>>
      BY <3>1, <3>2, Zenon
    <3>4. cmd[q].incoming \in Histories
      BY <1>4 DEF Memory
    <3>5. s \in Snapshots /\ cmd[q].incoming[s] \in Contents
      BY <3>4, Kinds DEF Partial
    <3> QED
      BY <3>3, <3>5
  <2>4. offered' = UNION {Offers(cmd[q]) : q \in {p \in Commands : cmd'[p].pc \in WritePhases}}
    BY <1>7 DEF Decide
  <2>5. offered' \subseteq Snapshots \X Contents \X BOOLEAN
    BY <2>3, <2>4
  <2> QED
    BY <1>1, <1>2, <1>f, <2>1, <2>2, <2>5 DEF Observed
<1>8. ASSUME NEW c \in Commands, OpenPartition(c) PROVE TypeInv'
  <2>1. /\ CommandsInv' /\ UNCHANGED <<manifest, known, offered, interrupted>>
        /\ partition' = [partition EXCEPT ![Latest(cmd[c].todo)] = Truncated]
    BY <1>1, <1>8, OpenPartitionStep DEF OpenPartition
  <2>2. partition' \in [Dates -> Partitions]
    BY <1>1, <1>3, <2>1
  <2> QED
    BY <1>1, <1>2, <1>o, <2>1, <2>2
<1>9. ASSUME NEW c \in Commands, WritePartition(c) PROVE TypeInv'
  <2> DEFINE d == Latest(cmd[c].todo)
             new == File(RowsAt(cmd[c].next, d))
  <2>1. CommandsInv' /\ UNCHANGED <<manifest, known, offered, interrupted>>
    BY <1>1, <1>9, WritePartitionStep DEF WritePartition
  <2>2. new \in Partitions
    BY <1>1, <1>9, Written DEF WritePartition, WritePhases, Partitions
  <2>3. \E file \in {new, Garbled} : partition' = [partition EXCEPT ![d] = file]
    BY <1>9 DEF WritePartition
  <2> HIDE DEF new, d
  <2>4. partition' \in [Dates -> Partitions]
    BY <1>1, <1>3, <2>2, <2>3
  <2> QED
    BY <1>1, <1>2, <1>o, <2>1, <2>4
<1>10. ASSUME NEW c \in Commands, OpenManifest(c) PROVE TypeInv'
  BY <1>1, <1>2, <1>3, <1>o, <1>10, OpenManifestStep DEF OpenManifest
<1>11. ASSUME NEW c \in Commands, WriteManifest(c) PROVE TypeInv'
  <2>1. /\ CommandsInv' /\ UNCHANGED <<partition, offered, interrupted>>
        /\ known' = cmd[c].next /\ cmd[c].pc \in WritePhases
        /\ manifest' \in {File(ManifestCounts(cmd[c].next)), Garbled}
    BY <1>1, <1>11, Ends DEF WriteManifest, WritePhases
  <2>2. File(ManifestCounts(cmd[c].next)) \in Manifests /\ cmd[c].next \in Histories
    BY <1>1, <2>1, Written DEF Manifests
  <2> QED
    BY <1>1, <1>2, <1>3, <2>1, <2>2 DEF Observed
<1>12. ASSUME NEW c \in Commands, Crash(c) PROVE TypeInv'
  <2>1. CommandsInv' /\ UNCHANGED <<partition, manifest, known, offered>>
    BY <1>1, <1>12, Ends DEF Crash
  <2>2. interrupted' \in BOOLEAN
    BY <1>12 DEF Crash
  <2> QED
    BY <1>1, <1>2, <1>f, <2>1, <2>2 DEF Observed
<1>13. CASE UNCHANGED vars
  BY <1>1, <1>2, <1>f, <1>o, <1>13 DEF vars, CommandsInv
<1> QED
  BY <1>5, <1>6, <1>7, <1>8, <1>9, <1>10, <1>11, <1>12, <1>13 DEF Next

\* The files, and the memory of the commands, are of the kinds there are, whatever commands
\* run at once; a command never waits for a date when none is left.
THEOREM TypeCorrect == Spec => []TypeOK
<1>1. Init => TypeInv
  BY TypeInit
<1>2. TypeInv /\ [Next]_vars => TypeInv'
  BY TypeNext
<1>3. TypeInv => TypeOK
  <2> SUFFICES ASSUME TypeInv PROVE TypeOK
    OBVIOUS
  <2>1. \A d \in Dates : \/ partition[d] \in {Absent, Garbled}
                         \/ partition[d].is = "file" /\ Partial(partition[d].data, Etfs, Contents)
    BY Kinds DEF TypeInv, File
  <2>2. \A f \in Counts : Partial(f, Dates, Nat)
    BY Kinds DEF Partial
  <2>3. \/ manifest \in {Absent, Garbled}
        \/ manifest.is = "file" /\ Partial(manifest.data, Dates, Nat)
    BY <2>2 DEF TypeInv, File
  <2>4. ASSUME NEW c \in Commands
        PROVE  /\ cmd[c].pc \in Phases
               /\ Partial(cmd[c].incoming, Snapshots, Contents)
               /\ cmd[c].refresh \subseteq Snapshots
               /\ Partial(cmd[c].counts, Dates, Nat)
               /\ cmd[c].todo \subseteq Dates
               /\ Partial(cmd[c].stored, Snapshots, Contents)
               /\ Partial(cmd[c].next, Snapshots, Contents)
               /\ cmd[c].pc \in {"partitions", "open_partition", "write_partition"}
                    => cmd[c].todo # {}
    <3>1. /\ cmd[c].pc \in Phases /\ cmd[c].incoming \in Histories
          /\ cmd[c].refresh \subseteq Snapshots /\ cmd[c].counts \in Counts
          /\ cmd[c].todo \subseteq Dates /\ cmd[c].stored \in Histories
          /\ cmd[c].next \in Histories
      <4> HIDE DEF Dates, Histories, Snapshots
      <4> QED
        BY DEF TypeInv, CommandsInv, Memory
    <3> QED
      BY <2>2, <3>1, Kinds DEF TypeInv, CommandsInv
  <2> QED
    BY <2>1, <2>3, <2>4, Kinds DEF TypeInv, TypeOK
<1> QED
  BY <1>1, <1>2, <1>3, PTL DEF Spec
-----------------------------------------------------------------------------
(* One command at a time: what a reader may come to see, at each step *)

\* x is what readers know of the snapshot, or was offered since, as they may come to see it.
Brought(s, x) ==
    \/ s \in DOMAIN known /\ x = known[s]
    \/ s \in DOMAIN known /\ <<s, x, TRUE>> \in offered
    \/ s \notin DOMAIN known /\ \E r \in BOOLEAN : <<s, x, r>> \in offered

\* A partition of a known date may be left empty; otherwise it has all that is known of its
\* date, as it was or as it was offered.
Holds(rows, d) ==
    \/ rows = Nothing
    \/ /\ \A e \in Etfs : <<e, d>> \in DOMAIN known => e \in DOMAIN rows
       /\ \A e \in DOMAIN rows : Brought(<<e, d>>, rows[e])

\* The manifest lists the known dates, unless it cannot be read; what it does not list, no
\* reader looks at.
FilesInv ==
    /\ manifest.is = "absent" => known = Nothing
    /\ manifest.is = "file" => DOMAIN manifest.data = DatesOf(known)
    /\ \A d \in DatesOf(known) : partition[d].is = "file" => Holds(partition[d].data, d)

\* The dates that a command m has read are in its memory as they are in their files.
ReadingInv(m) ==
    /\ m.pc \in {"idle", "manifest"} => m.stored = Nothing /\ m.todo = {}
    /\ m.pc \in {"partitions", "decide"} =>
         /\ manifest.is # "garbled"
         /\ manifest.is = "file" => m.counts = manifest.data
         /\ m.todo \subseteq DatesOf(known)
         /\ m.pc = "decide" => m.todo = {}
         /\ \A s \in DOMAIN m.stored : s[2] \in DatesOf(known) \ m.todo
         /\ \A d \in DatesOf(known) \ m.todo :
               /\ PartitionReadable(partition[d], manifest.data[d])
               /\ RowsAt(m.stored, d) = partition[d].data

\* A command m that writes adds what it was given to what readers know; the dates that it
\* has written are in their files.
WritingInv(m) ==
    m.pc \in WritePhases =>
        /\ known = m.stored /\ offered = Offers(m) /\ m.next = Merged(m.stored, m.incoming)
        /\ Conflicts(m.stored, m.incoming, m.refresh) = {}
        /\ m.pc \in {"open_manifest", "write_manifest"} => m.todo = {}
        /\ m.pc = "write_partition" => partition[Latest(m.todo)] = Truncated
        /\ m.pc = "write_manifest" => manifest = Garbled
        /\ \A d \in DatesOf(m.next) \ m.todo : partition[d] = File(RowsAt(m.next, d))

Settled == Shows(known)

StoreInv(m) ==
    /\ FilesInv
    /\ ReadingInv(m)
    /\ WritingInv(m)
    /\ ~interrupted /\ m.pc \notin WritePhases => Settled

LEMMA RowsWithDate ==
    ASSUME NEW h \in Histories, NEW d \in Dates, NEW rows \in RowSets,
           \A s \in DOMAIN h : s[2] # d
    PROVE  /\ RowsAt(WithDate(h, d, rows), d) = rows
           /\ \A x : x # d => RowsAt(WithDate(h, d, rows), x) = RowsAt(h, x)
<1> DEFINE g == WithDate(h, d, rows)
<1>1. /\ g \in Histories
      /\ DOMAIN g = DOMAIN h \union {<<e, d>> : e \in DOMAIN rows}
      /\ \A e \in DOMAIN rows : g[<<e, d>>] = rows[e]
      /\ \A s \in DOMAIN h : s[2] # d => g[s] = h[s]
  BY HistoryWithDate
<1> HIDE DEF g
<1>2. DOMAIN rows \subseteq Etfs /\ rows = [e \in DOMAIN rows |-> rows[e]]
  BY Kinds DEF Partial
<1>3. \A e, x : <<e, x>>[2] = x
  OBVIOUS
<1>4. {e \in Etfs : <<e, d>> \in DOMAIN g} = DOMAIN rows
  <2>1. ASSUME NEW e \in Etfs, <<e, d>> \in DOMAIN g PROVE e \in DOMAIN rows
    <3>1. <<e, d>> \notin DOMAIN h
      BY <1>3
    <3>2. PICK f \in DOMAIN rows : <<e, d>> = <<f, d>>
      BY <1>1, <2>1, <3>1
    <3> QED
      BY <3>2
  <2> QED
    BY <1>1, <1>2, <2>1
<1>5. RowsAt(g, d) = rows
  <2>1. RowsAt(g, d) = [e \in DOMAIN rows |-> g[<<e, d>>]]
    BY <1>4 DEF RowsAt
  <2> QED
    BY <1>1, <1>2, <2>1
<1>6. ASSUME NEW x, x # d PROVE RowsAt(g, x) = RowsAt(h, x)
  <2>1. \A e : <<e, x>> \in DOMAIN g <=> <<e, x>> \in DOMAIN h
    BY <1>1, <1>3, <1>6
  <2>2. \A e : <<e, x>> \in DOMAIN h => g[<<e, x>>] = h[<<e, x>>]
    BY <1>1, <1>3, <1>6
  <2> QED
    BY <2>1, <2>2 DEF RowsAt
<1> QED
  BY <1>5, <1>6 DEF g

\* What one writes is what there was, and what it was given.
LEMMA MergedIsBrought ==
    ASSUME NEW m \in Memory, known = m.stored, offered = Offers(m),
           Conflicts(m.stored, m.incoming, m.refresh) = {}
    PROVE  LET next == Merged(m.stored, m.incoming) IN
           DOMAIN known \subseteq DOMAIN next /\ \A s \in DOMAIN next : Brought(s, next[s])
<1> DEFINE next == Merged(m.stored, m.incoming)
<1>1. next = [s \in DOMAIN m.stored \union DOMAIN m.incoming |->
                IF s \in DOMAIN m.incoming THEN m.incoming[s] ELSE m.stored[s]]
  BY DEF Merged
<1>2. ASSUME NEW s \in DOMAIN m.incoming PROVE Brought(s, m.incoming[s])
  <2>1. <<s, m.incoming[s], s \in m.refresh>> \in offered
    BY Zenon DEF Offers
  <2>2. CASE s \in DOMAIN m.stored /\ m.stored[s] = m.incoming[s]
    BY <2>2 DEF Brought
  <2>3. CASE s \in DOMAIN m.stored /\ m.stored[s] # m.incoming[s]
    <3>1. s \in m.refresh
      BY <2>3 DEF Conflicts, Changed
    <3>2. (s \in m.refresh) = TRUE
      BY <3>1
    <3>3. <<s, m.incoming[s], TRUE>> \in offered
      BY <2>1, <3>2, Zenon
    <3> QED
      BY <2>3, <3>3 DEF Brought
  <2>4. CASE s \notin DOMAIN m.stored
    <3>1. (s \in m.refresh) \in BOOLEAN
      OBVIOUS
    <3>2. \E r \in BOOLEAN : <<s, m.incoming[s], r>> \in offered
      BY <2>1, <3>1, Zenon
    <3> QED
      BY <2>4, <3>2 DEF Brought
  <2> QED
    BY <2>2, <2>3, <2>4
<1>3. \A s \in DOMAIN m.stored : Brought(s, m.stored[s])
  BY DEF Brought
<1>4. \A s \in DOMAIN next : Brought(s, next[s])
  BY <1>1, <1>2, <1>3
<1> QED
  BY <1>1, <1>4

\* A command that has read all the dates has all that is known, and no more than was offered.
LEMMA AllRead ==
    ASSUME TypeInv, FilesInv, NEW m \in Memory, ReadingInv(m), m.pc = "decide"
    PROVE  /\ DatesOf(m.stored) = DatesOf(known) /\ DOMAIN known \subseteq DOMAIN m.stored
           /\ \A s \in DOMAIN m.stored : Brought(s, m.stored[s])
           /\ \A d \in DatesOf(m.stored) :
                 /\ PartitionReadable(partition[d], manifest.data[d])
                 /\ partition[d].data = RowsAt(m.stored, d)
           /\ manifest = Absent => m.stored = Nothing
           /\ manifest.is = "file" => DOMAIN manifest.data = DatesOf(m.stored)
           /\ manifest.is # "file" => manifest = Absent
           /\ m.stored = Nothing => manifest = Absent
<1>1. m.stored \in Histories /\ known \in Histories
  BY DEF TypeInv, Memory
<1>2. \A s \in Snapshots : s[1] \in Etfs /\ s[2] \in Dates /\ s = <<s[1], s[2]>>
  BY DEF Snapshots
<1>3. DOMAIN m.stored \subseteq Snapshots /\ DOMAIN known \subseteq Snapshots
  BY <1>1, Kinds DEF Partial
<1>4. manifest = Absent \/ /\ manifest.is = "file" /\ manifest.data \in Counts
                           /\ DOMAIN manifest.data # {}
  BY DEF TypeInv, ReadingInv, Absent, Garbled, File
<1>5. manifest.is = "absent" => DatesOf(known) = {}
  BY NothingIsEmpty DEF FilesInv, DatesOf
<1>6. ASSUME NEW d \in DatesOf(known)
      PROVE  /\ PartitionReadable(partition[d], manifest.data[d])
             /\ RowsAt(m.stored, d) = partition[d].data
             /\ d \in DatesOf(m.stored)
             /\ \A e \in Etfs : <<e, d>> \in DOMAIN known => <<e, d>> \in DOMAIN m.stored
             /\ \A e \in Etfs : <<e, d>> \in DOMAIN m.stored =>
                   Brought(<<e, d>>, m.stored[<<e, d>>])
  <2> DEFINE rows == partition[d].data
  <2>1. PartitionReadable(partition[d], manifest.data[d]) /\ RowsAt(m.stored, d) = rows
    BY <1>6 DEF ReadingInv
  <2>2. d \in DOMAIN manifest.data /\ manifest.data[d] \in Nat \ {0}
    <3>1. manifest.is = "file" /\ DOMAIN manifest.data = DatesOf(known)
      BY <1>4, <1>5, <1>6 DEF FilesInv, Absent
    <3> QED
      BY <1>4, <1>6, <3>1, Kinds DEF Partial, Absent
  <2>3. partition[d].is = "file" /\ RecordCount(rows) = manifest.data[d]
    BY <2>1 DEF PartitionReadable
  <2>4. /\ rows \in RowSets /\ DOMAIN rows = {e \in Etfs : <<e, d>> \in DOMAIN m.stored}
        /\ \A e \in DOMAIN rows : rows[e] = m.stored[<<e, d>>]
        /\ d \in DatesOf(m.stored) <=> DOMAIN rows # {}
    <3> DEFINE stored == RowsAt(m.stored, d)
    <3>1. /\ stored \in RowSets /\ DOMAIN stored = {e \in Etfs : <<e, d>> \in DOMAIN m.stored}
          /\ \A e \in DOMAIN stored : stored[e] = m.stored[<<e, d>>]
          /\ d \in DatesOf(m.stored) <=> DOMAIN stored # {}
      BY <1>1, RowsOfDate
    <3>2. stored = rows
      BY <2>1
    <3> HIDE DEF stored, rows
    <3> QED
      BY <3>1, <3>2
  <2>5. DOMAIN rows # {}
    BY <2>2, <2>3, <2>4, CountOfRows
  <2>6. rows # Nothing
    BY <2>5, NothingIsEmpty
  <2>7. Holds(rows, d)
    BY <1>6, <2>3 DEF FilesInv
  <2> HIDE DEF rows
  <2>8. /\ \A e \in Etfs : <<e, d>> \in DOMAIN known => e \in DOMAIN rows
        /\ \A e \in DOMAIN rows : Brought(<<e, d>>, rows[e])
    BY <2>6, <2>7 DEF Holds
  <2> QED
    BY <2>1, <2>4, <2>5, <2>8 DEF rows
<1>7. \A s \in DOMAIN m.stored : s[2] \in DatesOf(known)
  BY DEF ReadingInv
<1>8. DatesOf(m.stored) = DatesOf(known)
  BY <1>6, <1>7 DEF DatesOf
<1>9. DOMAIN known \subseteq DOMAIN m.stored
  <2> SUFFICES ASSUME NEW s \in DOMAIN known PROVE s \in DOMAIN m.stored
    OBVIOUS
  <2>1. s[1] \in Etfs /\ s[2] \in DatesOf(known) /\ s = <<s[1], s[2]>>
    BY <1>2, <1>3 DEF DatesOf
  <2> QED
    BY <1>6, <2>1
<1>10. \A s \in DOMAIN m.stored : Brought(s, m.stored[s])
  <2> SUFFICES ASSUME NEW s \in DOMAIN m.stored PROVE Brought(s, m.stored[s])
    OBVIOUS
  <2>1. s[1] \in Etfs /\ s[2] \in DatesOf(known) /\ s = <<s[1], s[2]>>
    BY <1>2, <1>3, <1>7
  <2> QED
    BY <1>6, <2>1
<1>11. manifest = Absent => m.stored = Nothing
  <2>1. ASSUME manifest = Absent PROVE DOMAIN m.stored = {}
    BY <1>5, <1>7, <2>1 DEF Absent
  <2> QED
    BY <1>1, <2>1, NothingIsEmpty
<1>12. manifest.is = "file" => DOMAIN manifest.data = DatesOf(m.stored)
  BY <1>8 DEF FilesInv
<1>13. m.stored = Nothing => manifest = Absent
  <2>1. DatesOf(Nothing) = {}
    BY NothingIsEmpty DEF DatesOf
  <2> QED
    BY <1>4, <1>12, <2>1
<1> QED
  BY <1>4, <1>6, <1>8, <1>9, <1>10, <1>11, <1>12, <1>13
-----------------------------------------------------------------------------
(* The steps of the one command *)

Files == <<partition, manifest, known, offered, interrupted>>

\* What is said of the files stays as long as they do.
LEMMA FilesStay ==
    ASSUME UNCHANGED Files
    PROVE  /\ FilesInv => FilesInv'
           /\ Settled => Settled'
           /\ \A m : ReadingInv(m) => ReadingInv(m)'
<1>1. \A d : partition'[d] = partition[d]
  BY DEF Files
<1>2. \A rows, d : Holds(rows, d) => Holds(rows, d)'
  BY DEF Holds, Brought, Files
<1>3. FilesInv => FilesInv'
  BY <1>1, <1>2 DEF FilesInv, Files
<1>4. Settled => Settled'
  BY <1>1 DEF Settled, Shows, Files
<1>5. \A m : ReadingInv(m) => ReadingInv(m)'
  BY <1>1 DEF ReadingInv, Files
<1> QED
  BY <1>3, <1>4, <1>5

\* A command that ends leaves the store as it is.
LEMMA EndsStore ==
    ASSUME CommandsInv, NEW c \in Commands, StoreInv(cmd[c]), cmd'[c] = Idle,
           UNCHANGED <<partition, manifest, known, offered>>, interrupted' \in BOOLEAN,
           ~interrupted' => ~interrupted /\ cmd[c].pc \notin WritePhases
    PROVE  StoreInv(cmd[c])'
<1>1. FilesInv'
  <2>1. \A rows, d : Holds(rows, d) => Holds(rows, d)'
    BY DEF Holds, Brought
  <2> QED
    BY <2>1 DEF StoreInv, FilesInv
<1>2. ~interrupted' => Settled'
  BY DEF StoreInv, Settled, Shows
<1>3. Idle.pc = "idle" /\ Idle.pc \notin WritePhases /\ Idle.stored = Nothing /\ Idle.todo = {}
  BY IdleMemory DEF WritePhases
<1>4. ReadingInv(cmd[c])' /\ WritingInv(cmd[c])'
  BY <1>3 DEF ReadingInv, WritingInv
<1> QED
  BY <1>1, <1>2, <1>4 DEF StoreInv

\* A command that goes on, but not to write.
LEMMA ReadsOn ==
    ASSUME CommandsInv, NEW c \in Commands, StoreInv(cmd[c]), UNCHANGED Files,
           cmd[c].pc \notin WritePhases, ReadingInv(cmd'[c]), cmd'[c].pc \notin WritePhases
    PROVE  StoreInv(cmd[c])'
<1>1. ReadingInv(cmd[c])'
  BY DEF ReadingInv, Files
<1>2. WritingInv(cmd[c])'
  BY DEF WritingInv
<1>3. FilesInv' /\ (~interrupted' => Settled')
  BY FilesStay DEF StoreInv, Files
<1> QED
  BY <1>1, <1>2, <1>3 DEF StoreInv

LEMMA StartsStore ==
    ASSUME CommandsInv, NEW c \in Commands, StoreInv(cmd[c]),
           NEW a \in Arguments, Start(c, a.incoming, a.refresh)
    PROVE  StoreInv(cmd[c])'
<1> DEFINE m == cmd[c]
           new == [m EXCEPT !.pc = "manifest", !.incoming = a.incoming, !.refresh = a.refresh]
<1>1. cmd'[c] = new /\ UNCHANGED Files /\ m.pc = "idle" /\ m \in Memory
  BY StartStep DEF Start, Files, CommandsInv
<1>2. m.stored = Nothing /\ m.todo = {} /\ m.pc \notin WritePhases
  BY <1>1 DEF StoreInv, ReadingInv, WritePhases
<1>3. new.pc = "manifest" /\ new.stored = Nothing /\ new.todo = {}
  BY <1>1, <1>2 DEF Memory
<1> HIDE DEF new
<1>4. ReadingInv(new) /\ new.pc \notin WritePhases
  BY <1>3 DEF ReadingInv, WritePhases
<1> QED
  BY <1>1, <1>2, <1>4, ReadsOn

LEMMA ReadManifestStore ==
    ASSUME TypeInv, CommandsInv, NEW c \in Commands, StoreInv(cmd[c]), ReadManifest(c)
    PROVE  StoreInv(cmd[c])'
<1> DEFINE m == cmd[c]
           none == [m EXCEPT !.pc = "decide"]
           some == [m EXCEPT !.pc = "partitions", !.counts = manifest.data,
                             !.todo = DOMAIN manifest.data]
<1>1. UNCHANGED Files /\ m.pc = "manifest" /\ m \in Memory
  BY DEF ReadManifest, Files, CommandsInv
<1>2. m.stored = Nothing /\ m.todo = {} /\ FilesInv
  BY <1>1 DEF StoreInv, ReadingInv
<1>3. CASE cmd'[c] = Idle
  BY <1>1, <1>3, EndsStore DEF Files, TypeInv, WritePhases
<1>4. CASE manifest.is = "absent" /\ cmd'[c] = none
  <2>1. none.pc = "decide" /\ none.todo = {} /\ none.stored = Nothing
    BY <1>1, <1>2 DEF Memory
  <2>2. DatesOf(known) = {}
    BY <1>2, <1>4, NothingIsEmpty DEF FilesInv, DatesOf
  <2> HIDE DEF none
  <2>3. ReadingInv(none)
    BY <1>4, <2>1, <2>2, NothingIsEmpty DEF ReadingInv
  <2> QED
    BY <1>1, <1>4, <2>1, <2>3, ReadsOn DEF WritePhases
<1>5. CASE manifest = File(manifest.data) /\ cmd'[c] = some
  <2>1. /\ some.pc = "partitions" /\ some.todo = DOMAIN manifest.data /\ some.stored = Nothing
        /\ some.counts = manifest.data
    BY <1>1, <1>2 DEF Memory
  <2>2. manifest.is = "file"
    BY <1>5 DEF File
  <2>3. DOMAIN manifest.data = DatesOf(known)
    BY <1>2, <2>2 DEF FilesInv
  <2> HIDE DEF some
  <2>4. ReadingInv(some)
    BY <2>1, <2>2, <2>3, NothingIsEmpty DEF ReadingInv
  <2> QED
    BY <1>1, <1>5, <2>1, <2>4, ReadsOn DEF WritePhases
<1> QED
  BY <1>3, <1>4, <1>5, ReadManifestStep

LEMMA ReadPartitionStore ==
    ASSUME TypeInv, CommandsInv, NEW c \in Commands, StoreInv(cmd[c]), ReadPartition(c)
    PROVE  StoreInv(cmd[c])'
<1> DEFINE m == cmd[c]
           d == Latest(m.todo)
           rows == partition[d].data
           new == [m EXCEPT !.pc = IF m.todo = {d} THEN "decide" ELSE "partitions",
                            !.todo = @ \ {d}, !.stored = WithDate(@, d, rows)]
<1>1. UNCHANGED Files /\ m.pc = "partitions" /\ m \in Memory
  BY DEF ReadPartition, Files, CommandsInv
<1>2. /\ d \in m.todo /\ d \in Dates
      /\ cmd'[c] = Idle \/ (/\ PartitionReadable(partition[d], m.counts[d]) /\ rows \in RowSets
                            /\ cmd'[c] = new)
  BY ReadPartitionStep
<1>3. CASE cmd'[c] = Idle
  BY <1>1, <1>3, EndsStore DEF Files, TypeInv, WritePhases
<1>4. CASE PartitionReadable(partition[d], m.counts[d]) /\ rows \in RowSets /\ cmd'[c] = new
  <2>1. /\ FilesInv /\ manifest.is # "garbled" /\ m.todo \subseteq DatesOf(known)
        /\ manifest.is = "file" => m.counts = manifest.data
        /\ \A s \in DOMAIN m.stored : s[2] \in DatesOf(known) \ m.todo
        /\ \A x \in DatesOf(known) \ m.todo :
              /\ PartitionReadable(partition[x], manifest.data[x])
              /\ RowsAt(m.stored, x) = partition[x].data
    BY <1>1 DEF StoreInv, ReadingInv
  <2>2. manifest.is = "file"
    <3>1. known # Nothing
      BY <1>2, <2>1, NothingIsEmpty DEF DatesOf
    <3> QED
      BY <2>1, <3>1 DEF FilesInv, TypeInv, Absent, Garbled, File
  <2>3. m.stored \in Histories
    BY <1>1 DEF Memory
  <2> HIDE DEF d
  <2>4. /\ new.pc \in {"partitions", "decide"} /\ new.todo = m.todo \ {d}
        /\ new.pc = "decide" => new.todo = {}
        /\ new.counts = m.counts /\ new.stored = WithDate(m.stored, d, rows)
    BY <1>1 DEF Memory
  <2> HIDE DEF new, rows
  <2>5. \A s \in DOMAIN m.stored : s[2] # d
    BY <1>2, <2>1
  <2>6. /\ RowsAt(new.stored, d) = rows
        /\ \A x : x # d => RowsAt(new.stored, x) = RowsAt(m.stored, x)
    BY <1>2, <1>4, <2>3, <2>4, <2>5, RowsWithDate
  <2>7. \A s \in DOMAIN new.stored : s[2] \in DatesOf(known) \ new.todo
    <3>1. DOMAIN new.stored = DOMAIN m.stored \union {<<e, d>> : e \in DOMAIN rows}
      <4>1. d \in Dates /\ rows \in RowSets /\ new.stored = WithDate(m.stored, d, rows)
        BY <1>2, <1>4, <2>4
      <4>2. DOMAIN WithDate(m.stored, d, rows) = DOMAIN m.stored \union {<<e, d>> : e \in DOMAIN rows}
        BY <2>3, <4>1, HistoryWithDate
      <4> QED
        BY <4>1, <4>2
    <3> QED
      BY <1>2, <2>1, <2>4, <3>1
  <2>8. \A x \in DatesOf(known) \ new.todo :
           /\ PartitionReadable(partition[x], manifest.data[x])
           /\ RowsAt(new.stored, x) = partition[x].data
    BY <1>4, <2>1, <2>2, <2>4, <2>6 DEF rows
  <2>9. ReadingInv(new)
    BY <2>1, <2>4, <2>7, <2>8 DEF ReadingInv
  <2> QED
    BY <1>1, <1>4, <2>4, <2>9, ReadsOn DEF WritePhases
<1> QED
  BY <1>2, <1>3, <1>4

LEMMA DecideStore ==
    ASSUME TypeInv, CommandsInv, NEW c, Commands = {c}, StoreInv(cmd[c]), Decide(c)
    PROVE  /\ StoreInv(cmd[c])'
           /\ DOMAIN known \subseteq DOMAIN known' /\ \A s \in DOMAIN known' : Brought(s, known'[s])
<1> DEFINE m == cmd[c]
           next == Merged(m.stored, m.incoming)
           new == [m EXCEPT !.pc = "open_partition", !.next = next, !.todo = DatesOf(next)]
<1>1. /\ m \in Memory /\ m.pc = "decide" /\ m.stored \in Histories
      /\ known' = m.stored /\ UNCHANGED <<partition, manifest, interrupted>>
  BY DEF Decide, CommandsInv, Memory
<1>2. /\ DatesOf(m.stored) = DatesOf(known) /\ DOMAIN known \subseteq DOMAIN m.stored
      /\ \A s \in DOMAIN m.stored : Brought(s, m.stored[s])
      /\ \A d \in DatesOf(m.stored) :
            /\ PartitionReadable(partition[d], manifest.data[d])
            /\ partition[d].data = RowsAt(m.stored, d)
      /\ manifest = Absent => m.stored = Nothing
      /\ manifest.is = "file" => DOMAIN manifest.data = DatesOf(m.stored)
      /\ manifest.is # "file" => manifest = Absent
      /\ m.stored = Nothing => manifest = Absent
  BY <1>1, AllRead DEF StoreInv
<1>3. cmd'[c] = IF Writes(m) THEN new ELSE Idle
  BY DecideStep
<1>4. Settled'
  BY <1>1, <1>2 DEF Settled, Shows
<1>5. FilesInv'
  <2>1. ASSUME NEW d \in DatesOf(m.stored), NEW rows, rows = RowsAt(m.stored, d)
        PROVE  Holds(rows, d)'
    <3>1. /\ DOMAIN rows = {e \in Etfs : <<e, d>> \in DOMAIN m.stored}
          /\ \A e \in DOMAIN rows : rows[e] = m.stored[<<e, d>>]
      BY <1>1, <2>1, RowsOfDate
    <3>2. \A e \in DOMAIN rows : <<e, d>> \in DOMAIN known' /\ rows[e] = known'[<<e, d>>]
      BY <1>1, <3>1
    <3>3. \A e \in DOMAIN rows : Brought(<<e, d>>, rows[e])'
      BY <3>2 DEF Brought
    <3> QED
      BY <1>1, <3>1, <3>3 DEF Holds
  <2> QED
    BY <1>1, <1>2, <2>1 DEF FilesInv, Absent
<1>6. ReadingInv(cmd[c])' /\ WritingInv(cmd[c])'
  <2>1. CASE Writes(m)
    <3>1. cmd'[c] = new
      BY <1>3, <2>1
    <3>2. /\ new.pc = "open_partition" /\ new.stored = m.stored /\ new.incoming = m.incoming
          /\ new.refresh = m.refresh /\ new.next = next /\ new.todo = DatesOf(next)
      <4> HIDE DEF next
      <4> QED
        BY <1>1 DEF Memory
    <3> HIDE DEF new
    <3>3. offered' = Offers(m)
      <4>1. {p \in Commands : cmd'[p].pc \in WritePhases} = {c}
        BY <3>1, <3>2 DEF WritePhases
      <4> QED
        BY <4>1 DEF Decide
    <3>4. Offers(new) = Offers(m)
      BY <3>2, Zenon DEF Offers
    <3>5. Conflicts(new.stored, new.incoming, new.refresh) = {}
      BY <2>1, <3>2 DEF Writes
    <3>6. WritingInv(cmd[c])'
      BY <1>1, <3>1, <3>2, <3>3, <3>4, <3>5 DEF WritingInv
    <3> QED
      BY <3>1, <3>2, <3>6 DEF ReadingInv
  <2>2. CASE ~Writes(m)
    <3>1. cmd'[c] = Idle
      BY <1>3, <2>2
    <3> QED
      BY <3>1, IdleMemory DEF ReadingInv, WritingInv, WritePhases
  <2> QED
    BY <2>1, <2>2
<1> QED
  BY <1>1, <1>2, <1>4, <1>5, <1>6 DEF StoreInv

LEMMA WritingRows ==
    ASSUME NEW m \in Memory, WritingInv(m), m.pc \in WritePhases
    PROVE  /\ DOMAIN known \subseteq DOMAIN m.next
           /\ \A s \in DOMAIN m.next : Brought(s, m.next[s])
           /\ \A d : Holds(RowsAt(m.next, d), d)
<1>1. /\ DOMAIN known \subseteq DOMAIN m.next
      /\ \A s \in DOMAIN m.next : Brought(s, m.next[s])
  BY MergedIsBrought DEF WritingInv
<1>2. m.next \in Histories
  BY DEF Memory
<1>3. ASSUME NEW d PROVE Holds(RowsAt(m.next, d), d)
  <2>1. /\ DOMAIN RowsAt(m.next, d) = {e \in Etfs : <<e, d>> \in DOMAIN m.next}
        /\ \A e \in DOMAIN RowsAt(m.next, d) : RowsAt(m.next, d)[e] = m.next[<<e, d>>]
    BY <1>2, RowsOfDate
  <2> QED
    BY <1>1, <2>1 DEF Holds
<1> QED
  BY <1>1, <1>3

\* A partition that is rewritten with what it may have.
LEMMA FilesWith ==
    ASSUME TypeInv, FilesInv, UNCHANGED <<known, offered>>, NEW d \in Dates, NEW rows,
           partition' = [partition EXCEPT ![d] = File(rows)], Holds(rows, d),
           manifest' \in {manifest, Garbled}
    PROVE  FilesInv'
<1>1. \A r, x : Holds(r, x) => Holds(r, x)'
  BY DEF Holds, Brought
<1>2. partition'[d] = File(rows) /\ \A x \in Dates : x # d => partition'[x] = partition[x]
  BY DEF TypeInv
<1>3. DatesOf(known) \subseteq Dates
  BY DatesOfHistory DEF TypeInv
<1>4. File(rows).data = rows
  BY DEF File
<1>5. ASSUME NEW x \in DatesOf(known), partition'[x].is = "file"
      PROVE  Holds(partition[x].data, x)'
  <2>1. CASE x = d
    BY <1>1, <1>2, <1>4, <2>1
  <2>2. CASE x # d
    <3>1. partition'[x] = partition[x] /\ Holds(partition[x].data, x)
      BY <1>2, <1>3, <1>5, <2>2 DEF FilesInv
    <3>2. \A r : Holds(r, x) => Holds(r, x)'
      BY <1>1
    <3> QED
      BY <3>1, <3>2
  <2> QED
    BY <2>1, <2>2
<1> QED
  BY <1>5 DEF FilesInv, Garbled

LEMMA OpenPartitionStore ==
    ASSUME TypeInv, CommandsInv, NEW c \in Commands, StoreInv(cmd[c]), OpenPartition(c)
    PROVE  StoreInv(cmd[c])'
<1> DEFINE m == cmd[c]
           d == Latest(m.todo)
           new == [m EXCEPT !.pc = "write_partition"]
<1>1. /\ m \in Memory /\ m.pc = "open_partition" /\ cmd'[c] = new /\ d \in m.todo /\ d \in Dates
      /\ partition' = [partition EXCEPT ![d] = Truncated]
      /\ UNCHANGED <<manifest, known, offered, interrupted>>
  BY OpenPartitionStep DEF OpenPartition, CommandsInv
<1>2. /\ new.pc = "write_partition" /\ new.incoming = m.incoming /\ new.refresh = m.refresh
      /\ new.stored = m.stored /\ new.next = m.next /\ new.todo = m.todo
  BY <1>1 DEF Memory
<1>3. FilesInv /\ WritingInv(m) /\ m.pc \in WritePhases
  BY <1>1 DEF StoreInv, WritePhases
<1>4. FilesInv'
  BY <1>1, <1>3, FilesWith DEF Holds, Truncated
<1>5. /\ known = new.stored /\ new.next = Merged(new.stored, new.incoming)
      /\ Conflicts(new.stored, new.incoming, new.refresh) = {}
      /\ \A x \in DatesOf(new.next) \ new.todo : partition[x] = File(RowsAt(new.next, x))
  BY <1>2, <1>3 DEF WritingInv
<1>6. offered = Offers(new)
  <2>1. offered = Offers(m)
    BY <1>3 DEF WritingInv
  <2> HIDE DEF new
  <2> QED
    BY <1>2, <2>1, Zenon DEF Offers
<1>7. partition'[d] = Truncated /\ \A x \in Dates : x # d => partition'[x] = partition[x]
  BY <1>1 DEF TypeInv
<1>8. DatesOf(new.next) \subseteq Dates
  BY <1>1, <1>2, DatesOfHistory DEF Memory
<1> HIDE DEF new, d
<1>9. \A x \in DatesOf(new.next) \ new.todo : partition'[x] = File(RowsAt(new.next, x))
  BY <1>1, <1>2, <1>5, <1>7, <1>8
<1>10. partition'[Latest(new.todo)] = Truncated
  BY <1>2, <1>7 DEF d
<1>11. WritingInv(cmd[c])'
  BY <1>1, <1>2, <1>5, <1>6, <1>9, <1>10 DEF WritingInv
<1>12. ReadingInv(cmd[c])' /\ cmd'[c].pc \in WritePhases
  BY <1>1, <1>2 DEF ReadingInv, WritePhases
<1> QED
  BY <1>4, <1>11, <1>12 DEF StoreInv

LEMMA WritePartitionStore ==
    ASSUME TypeInv, CommandsInv, NEW c \in Commands, StoreInv(cmd[c]), WritePartition(c)
    PROVE  StoreInv(cmd[c])'
<1> DEFINE m == cmd[c]
           d == Latest(m.todo)
           new == [m EXCEPT !.pc = IF m.todo = {d} THEN "open_manifest" ELSE "open_partition",
                            !.todo = @ \ {d}]
<1>1. /\ m \in Memory /\ m.pc = "write_partition" /\ cmd'[c] = new
      /\ d \in m.todo /\ d \in Dates
      /\ UNCHANGED <<manifest, known, offered, interrupted>>
  BY WritePartitionStep DEF WritePartition, CommandsInv
<1>2. FilesInv /\ WritingInv(m) /\ m.pc \in WritePhases
  BY <1>1 DEF StoreInv, WritePhases
<1>3. partition' = [partition EXCEPT ![d] = File(RowsAt(m.next, d))]
  <2>1. partition[d] = Truncated
    BY <1>1, <1>2 DEF WritingInv
  <2> QED
    BY <2>1 DEF WritePartition
<1> HIDE DEF d
<1>4. /\ new.pc \in {"open_manifest", "open_partition"}
      /\ new.pc = "open_manifest" => new.todo = {}
      /\ new.incoming = m.incoming /\ new.refresh = m.refresh
      /\ new.stored = m.stored /\ new.next = m.next /\ new.todo = m.todo \ {d}
  BY <1>1 DEF Memory
<1>5. FilesInv'
  <2>1. Holds(RowsAt(m.next, d), d)
    BY <1>1, <1>2, WritingRows
  <2> QED
    BY <1>1, <1>2, <1>3, <2>1, FilesWith
<1> HIDE DEF new
<1>6. /\ known = new.stored /\ new.next = Merged(new.stored, new.incoming)
      /\ Conflicts(new.stored, new.incoming, new.refresh) = {}
      /\ \A x \in DatesOf(new.next) \ m.todo : partition[x] = File(RowsAt(new.next, x))
  BY <1>2, <1>4 DEF WritingInv
<1>7. offered = Offers(new)
  <2>1. offered = Offers(m)
    BY <1>2 DEF WritingInv
  <2> QED
    BY <1>4, <2>1, Zenon DEF Offers
<1>8. /\ partition'[d] = File(RowsAt(m.next, d))
      /\ \A x \in Dates : x # d => partition'[x] = partition[x]
  BY <1>1, <1>3 DEF TypeInv
<1>9. DatesOf(new.next) \subseteq Dates
  BY <1>1, <1>4, DatesOfHistory DEF Memory
<1>10. \A x \in DatesOf(new.next) \ new.todo : partition'[x] = File(RowsAt(new.next, x))
  BY <1>1, <1>4, <1>6, <1>8, <1>9
<1>11. WritingInv(cmd[c])'
  BY <1>1, <1>4, <1>6, <1>7, <1>10 DEF WritingInv
<1>12. ReadingInv(cmd[c])' /\ cmd'[c].pc \in WritePhases
  BY <1>1, <1>4 DEF ReadingInv, WritePhases
<1> QED
  BY <1>5, <1>11, <1>12 DEF StoreInv

LEMMA OpenManifestStore ==
    ASSUME TypeInv, CommandsInv, NEW c \in Commands, StoreInv(cmd[c]), OpenManifest(c)
    PROVE  StoreInv(cmd[c])'
<1> DEFINE m == cmd[c]
           new == [m EXCEPT !.pc = "write_manifest"]
<1>1. /\ m \in Memory /\ m.pc = "open_manifest" /\ cmd'[c] = new /\ manifest' = Garbled
      /\ UNCHANGED <<partition, known, offered, interrupted>>
  BY OpenManifestStep DEF OpenManifest, CommandsInv
<1>2. /\ new.pc = "write_manifest" /\ new.incoming = m.incoming /\ new.refresh = m.refresh
      /\ new.stored = m.stored /\ new.next = m.next /\ new.todo = m.todo
  BY <1>1 DEF Memory
<1>3. FilesInv /\ WritingInv(m) /\ m.todo = {}
  BY <1>1 DEF StoreInv, WritingInv, WritePhases
<1>4. FilesInv'
  <2>1. \A rows, x : Holds(rows, x) => Holds(rows, x)'
    BY <1>1 DEF Holds, Brought
  <2> QED
    BY <1>1, <1>3, <2>1 DEF FilesInv, Garbled
<1> HIDE DEF new
<1>5. /\ known = new.stored /\ new.next = Merged(new.stored, new.incoming)
      /\ Conflicts(new.stored, new.incoming, new.refresh) = {}
      /\ \A x \in DatesOf(new.next) \ new.todo : partition[x] = File(RowsAt(new.next, x))
  BY <1>1, <1>2, <1>3 DEF WritingInv, WritePhases
<1>6. offered = Offers(new)
  <2>1. offered = Offers(m)
    BY <1>1, <1>3 DEF WritingInv, WritePhases
  <2> QED
    BY <1>2, <2>1, Zenon DEF Offers
<1>7. WritingInv(cmd[c])'
  BY <1>1, <1>2, <1>3, <1>5, <1>6 DEF WritingInv
<1>8. ReadingInv(cmd[c])' /\ cmd'[c].pc \in WritePhases
  BY <1>1, <1>2 DEF ReadingInv, WritePhases
<1> QED
  BY <1>4, <1>7, <1>8 DEF StoreInv

LEMMA WriteManifestStore ==
    ASSUME TypeInv, CommandsInv, NEW c \in Commands, StoreInv(cmd[c]), WriteManifest(c)
    PROVE  /\ StoreInv(cmd[c])'
           /\ DOMAIN known \subseteq DOMAIN known' /\ \A s \in DOMAIN known' : Brought(s, known'[s])
<1> DEFINE m == cmd[c]
<1>1. /\ m \in Memory /\ m.pc = "write_manifest" /\ m.pc \in WritePhases /\ cmd'[c] = Idle
      /\ known' = m.next /\ UNCHANGED <<partition, offered, interrupted>>
      /\ m.next \in Histories /\ DOMAIN m.next # {}
  BY Ends DEF WriteManifest, CommandsInv, WritePhases, Memory
<1>2. /\ m.todo = {} /\ manifest = Garbled /\ WritingInv(m)
      /\ \A d \in DatesOf(m.next) : partition[d] = File(RowsAt(m.next, d))
  BY <1>1 DEF StoreInv, WritingInv
<1>3. manifest' = File(ManifestCounts(m.next))
  BY <1>2 DEF WriteManifest
<1>4. /\ manifest'.is = "file" /\ manifest'.data = ManifestCounts(m.next)
      /\ \A d \in DatesOf(m.next) : partition'[d].is = "file"
                                    /\ partition'[d].data = RowsAt(m.next, d)
  <2>1. \A data : File(data).is = "file" /\ File(data).data = data
    BY DEF File
  <2> QED
    BY <1>1, <1>2, <1>3, <2>1
<1>5. /\ DOMAIN ManifestCounts(m.next) = DatesOf(m.next)
      /\ \A d \in DatesOf(m.next) :
            ManifestCounts(m.next)[d] = RecordCount(RowsAt(m.next, d))
  BY DEF ManifestCounts
<1>6. Settled'
  <2>1. known' # Nothing
    BY <1>1, NothingIsEmpty
  <2> QED
    BY <1>1, <1>4, <1>5, <2>1 DEF Settled, Shows, PartitionReadable
<1>7. FilesInv'
  <2>1. ASSUME NEW d \in DatesOf(m.next), NEW rows, rows = RowsAt(m.next, d)
        PROVE  Holds(rows, d)'
    <3>1. /\ DOMAIN rows = {e \in Etfs : <<e, d>> \in DOMAIN m.next}
          /\ \A e \in DOMAIN rows : rows[e] = m.next[<<e, d>>]
      BY <1>1, <2>1, RowsOfDate
    <3>2. \A e \in DOMAIN rows : <<e, d>> \in DOMAIN known' /\ rows[e] = known'[<<e, d>>]
      BY <1>1, <3>1
    <3>3. \A e \in DOMAIN rows : Brought(<<e, d>>, rows[e])'
      BY <3>2 DEF Brought
    <3> QED
      BY <1>1, <3>1, <3>3 DEF Holds
  <2> QED
    BY <1>1, <1>4, <1>5, <2>1 DEF FilesInv
<1>8. ReadingInv(cmd[c])' /\ WritingInv(cmd[c])'
  BY <1>1, IdleMemory DEF ReadingInv, WritingInv, WritePhases
<1>9. DOMAIN known \subseteq DOMAIN m.next /\ \A s \in DOMAIN m.next : Brought(s, m.next[s])
  BY <1>1, <1>2, WritingRows
<1> QED
  BY <1>1, <1>6, <1>7, <1>8, <1>9 DEF StoreInv

LEMMA CrashStore ==
    ASSUME TypeInv, CommandsInv, NEW c \in Commands, StoreInv(cmd[c]), Crash(c)
    PROVE  StoreInv(cmd[c])'
BY Ends, EndsStore DEF Crash, TypeInv

\* A command that runs alone keeps the store, and each step takes readers from what they know
\* to what was offered.
LEMMA StoreNext ==
    ASSUME NEW c, Commands = {c}, TypeInv, StoreInv(cmd[c]), [Next]_vars
    PROVE  /\ StoreInv(cmd[c])'
           /\ \/ UNCHANGED <<known, offered>>
              \/ /\ DOMAIN known \subseteq DOMAIN known'
                 /\ \A s \in DOMAIN known' : Brought(s, known'[s])
<1>1. CommandsInv /\ c \in Commands
  BY DEF TypeInv, CommandsInv
<1>2. ASSUME NEW a \in Arguments, Start(c, a.incoming, a.refresh)
      PROVE  StoreInv(cmd[c])' /\ UNCHANGED <<known, offered>>
  BY <1>1, <1>2, StartsStore DEF Start
<1>3. ASSUME ReadManifest(c) \/ ReadPartition(c)
      PROVE  StoreInv(cmd[c])' /\ UNCHANGED <<known, offered>>
  BY <1>1, <1>3, ReadManifestStore, ReadPartitionStore DEF ReadManifest, ReadPartition
<1>4. ASSUME OpenPartition(c) \/ WritePartition(c) \/ OpenManifest(c) \/ Crash(c)
      PROVE  StoreInv(cmd[c])' /\ UNCHANGED <<known, offered>>
  <2>1. UNCHANGED <<known, offered>>
    BY <1>4 DEF OpenPartition, WritePartition, OpenManifest, Crash
  <2> QED
    BY <1>1, <1>4, <2>1, OpenPartitionStore, WritePartitionStore, OpenManifestStore, CrashStore
<1>5. CASE Decide(c) \/ WriteManifest(c)
  BY <1>1, <1>5, DecideStore, WriteManifestStore
<1>6. CASE UNCHANGED vars
  <2>1. UNCHANGED Files /\ cmd' = cmd
    BY <1>6 DEF vars, Files
  <2>2. FilesInv' /\ ReadingInv(cmd[c])' /\ (Settled => Settled')
    BY <2>1, FilesStay DEF StoreInv
  <2>3. WritingInv(cmd[c])'
    BY <2>1 DEF StoreInv, WritingInv, Files
  <2> QED
    BY <2>1, <2>2, <2>3 DEF StoreInv, Files
<1> QED
  BY <1>2, <1>3, <1>4, <1>5, <1>6 DEF Next

LEMMA StoreInit ==
    ASSUME NEW c, Commands = {c}, Init
    PROVE  StoreInv(cmd[c])
<1>1. cmd[c] = Idle /\ known = Nothing /\ manifest = Absent /\ DatesOf(known) = {}
  BY NothingIsEmpty DEF Init, DatesOf
<1> QED
  BY <1>1, IdleMemory
  DEF StoreInv, FilesInv, ReadingInv, WritingInv, Settled, Shows, WritePhases, Absent

LEMMA StoreAlways ==
    ASSUME NEW c, Commands = {c}
    PROVE  Spec => [](TypeInv /\ StoreInv(cmd[c]))
<1>1. Init => TypeInv /\ StoreInv(cmd[c])
  BY TypeInit, StoreInit
<1>2. TypeInv /\ StoreInv(cmd[c]) /\ [Next]_vars => (TypeInv /\ StoreInv(cmd[c]))'
  BY TypeNext, StoreNext
<1> QED
  BY <1>1, <1>2, PTL DEF Spec

-----------------------------------------------------------------------------
(* What a reader gets from the files of a command that died *)

\* The counts of a manifest that can be read are those of what is known.
CountsFit == manifest.is = "file" => manifest.data = ManifestCounts(known)

LEMMA CountsNext ==
    ASSUME NEW c, Commands = {c}, TypeInv, StoreInv(cmd[c]), CountsFit, [Next]_vars
    PROVE  CountsFit'
<1>1. c \in Commands /\ CommandsInv
  BY DEF TypeInv, CommandsInv
<1>2. CASE UNCHANGED <<manifest, known>>
  BY <1>2 DEF CountsFit, ManifestCounts
<1>3. CASE Decide(c)
  <2> DEFINE m == cmd[c]
  <2>1. m \in Memory /\ m.pc = "decide" /\ known' = m.stored /\ manifest' = manifest
    BY <1>1, <1>3 DEF Decide, CommandsInv
  <2>2. /\ DatesOf(m.stored) = DatesOf(known)
        /\ \A d \in DatesOf(m.stored) :
              /\ PartitionReadable(partition[d], manifest.data[d])
              /\ partition[d].data = RowsAt(m.stored, d)
    BY <2>1, AllRead DEF StoreInv
  <2>3. CASE manifest.is = "file"
    <3>1. manifest.data = ManifestCounts(known)
      BY <2>3 DEF CountsFit
    <3>2. \A d \in DatesOf(m.stored) : manifest.data[d] = RecordCount(RowsAt(m.stored, d))
      BY <2>2 DEF PartitionReadable
    <3>3. manifest.data = ManifestCounts(m.stored)
      BY <2>2, <3>1, <3>2 DEF ManifestCounts
    <3> QED
      BY <2>1, <3>3 DEF CountsFit
  <2> QED
    BY <2>1, <2>3 DEF CountsFit
<1>4. CASE OpenManifest(c)
  BY <1>4 DEF OpenManifest, CountsFit, Garbled
<1>5. CASE WriteManifest(c)
  <2>1. manifest = Garbled
    BY <1>5 DEF StoreInv, WritingInv, WriteManifest, WritePhases
  <2>2. manifest' = File(ManifestCounts(cmd[c].next)) /\ known' = cmd[c].next
    BY <1>5, <2>1 DEF WriteManifest
  <2> QED
    BY <2>2 DEF CountsFit, File
<1> QED
  BY <1>1, <1>2, <1>3, <1>4, <1>5
  DEF Next, Start, ReadManifest, ReadPartition, OpenPartition, WritePartition, Crash, vars

\* Rows of more ETFs are more records.
LEMMA SameCountSameRows ==
    ASSUME NEW rows \in RowSets, NEW more \in RowSets, DOMAIN rows \subseteq DOMAIN more,
           \A e \in DOMAIN rows : more[e] = rows[e], RecordCount(more) = RecordCount(rows)
    PROVE  more = rows
<1>1. Records(rows) \subseteq Records(more)
  BY DEF Records
<1>2. Records(rows) = Records(more)
  <2>1. IsFiniteSet(Records(more))
    BY CountOfRows
  <2> QED
    BY <1>1, <2>1, FS_Subset DEF RecordCount
<1>3. \A e \in DOMAIN more : RowCount[more[e]] \in Nat \ {0}
  BY Kinds, RowCountAssumption DEF Partial
<1>4. ASSUME NEW e \in DOMAIN more PROVE e \in DOMAIN rows
  <2>1. <<e, 1>> \in Records(more)
    BY <1>3 DEF Records
  <2>2. <<e, 1>> \in Records(rows)
    BY <1>2, <2>1
  <2> QED
    BY <2>2 DEF Records
<1>5. DOMAIN more = DOMAIN rows
  BY <1>4
<1>6. more = [e \in DOMAIN more |-> more[e]] /\ rows = [e \in DOMAIN rows |-> rows[e]]
  BY Kinds DEF Partial
<1> QED
  BY <1>5, <1>6

\* A partition that has grown, or is empty, does not have the manifest's count.
LEMMA ReadableIsKnown ==
    ASSUME TypeInv, FilesInv, CountsFit, Readable, ~Replacing
    PROVE  Shows(known)
<1>1. known \in Histories /\ manifest \in {Absent, Garbled} \union {File(f) : f \in Counts}
  BY DEF TypeInv
<1>2. CASE manifest = Absent
  BY <1>2 DEF FilesInv, Shows, Absent
<1>3. CASE manifest # Absent
  <2>1. manifest.is = "file" /\ manifest.data = ManifestCounts(known)
    BY <1>3 DEF Readable, CountsFit
  <2>2. manifest.data \in Counts /\ DOMAIN manifest.data = DatesOf(known)
        /\ \A d \in DatesOf(known) : PartitionReadable(partition[d], manifest.data[d])
                                     /\ manifest.data[d] = RecordCount(RowsAt(known, d))
    BY <1>1, <1>3, <2>1, CountsOfHistory DEF Readable, ManifestCounts
  <2>3. ASSUME NEW d \in DatesOf(known) PROVE partition[d].data = RowsAt(known, d)
    <3> DEFINE rows == partition[d].data
               old == RowsAt(known, d)
    <3>1. /\ partition[d].is = "file" /\ RecordCount(rows) = RecordCount(old)
          /\ rows \in RowSets
      BY <2>2, <2>3, DatesOfHistory, <1>1 DEF PartitionReadable, TypeInv, Absent, Garbled, File
    <3>2. /\ old \in RowSets /\ DOMAIN old = {e \in Etfs : <<e, d>> \in DOMAIN known}
          /\ \A e \in DOMAIN old : old[e] = known[<<e, d>>]
          /\ DOMAIN old # {}
      BY <1>1, <2>3, RowsOfDate
    <3>3. rows # Nothing
      BY <3>1, <3>2, CountOfRows, NothingIsEmpty
    <3>4. /\ \A e \in Etfs : <<e, d>> \in DOMAIN known => e \in DOMAIN rows
          /\ \A e \in DOMAIN rows : Brought(<<e, d>>, rows[e])
      BY <2>3, <3>1, <3>3 DEF FilesInv, Holds
    <3>5. \A e \in DOMAIN old : rows[e] = old[e]
      <4> SUFFICES ASSUME NEW e \in DOMAIN old PROVE rows[e] = known[<<e, d>>]
        BY <3>2
      <4>1. <<e, d>> \in DOMAIN known /\ e \in DOMAIN rows /\ Brought(<<e, d>>, rows[e])
        BY <3>2, <3>4
      <4>2. rows[e] \in Contents
        BY <3>1, <4>1, Kinds DEF Partial
      <4> HIDE DEF rows
      <4> QED
        BY <4>1, <4>2 DEF Brought, Replacing
    <3>6. DOMAIN old \subseteq DOMAIN rows
      BY <3>2, <3>4
    <3> HIDE DEF rows, old
    <3>7. rows = old
      BY <3>1, <3>2, <3>5, <3>6, SameCountSameRows
    <3> QED
      BY <3>7 DEF rows, old
  <2>4. known # Nothing
    <3>1. DOMAIN manifest.data # {}
      BY <1>3, <2>1 DEF TypeInv, Absent, Garbled, File
    <3>2. DatesOf(Nothing) = {}
      BY NothingIsEmpty DEF DatesOf
    <3> QED
      BY <2>2, <3>1, <3>2
  <2> QED
    BY <2>1, <2>2, <2>3, <2>4 DEF Shows
<1> QED
  BY <1>2, <1>3

\* Whoever reads the history between two updates gets exactly what the last update wrote.  If
\* a command died while it wrote, he gets an error or the same, unless a snapshot was to be
\* replaced: no update that only adds is ever seen in part (_read_normalized_partition's
\* comparison with the manifest's counts).
THEOREM WrittenIsReadBack ==
    ASSUME NEW c, Commands = {c}
    PROVE  Spec => []ReadersSeeTheLastUpdate
<1>1. TypeInv /\ StoreInv(cmd[c]) /\ CountsFit => ReadersSeeTheLastUpdate
  BY ReadableIsKnown DEF StoreInv, Settled, ReadersSeeTheLastUpdate
<1>2. Init => CountsFit
  BY DEF Init, CountsFit, Absent
<1>3. TypeInv /\ StoreInv(cmd[c]) /\ CountsFit /\ [Next]_vars => CountsFit'
  BY CountsNext
<1> QED
  BY <1>1, <1>2, <1>3, StoreAlways, PTL DEF Spec

\* The history implements SnapshotStore when its commands run one at a time, wherever each
\* is killed: nothing that is known is lost, replaced without a refresh or back from an
\* update that was abandoned.
THEOREM HistoryIsAStore ==
    ASSUME NEW c, Commands = {c}
    PROVE  Spec => StoreIsKept
<1>1. Init => Store!Init
  BY DEF Init, Store!Init, Nothing
<1>2. ASSUME TypeInv, TypeInv', StoreInv(cmd[c]), [Next]_vars
      PROVE  [Store!Next]_<<known, offered>>
  <2>1. \/ UNCHANGED <<known, offered>>
        \/ /\ DOMAIN known \subseteq DOMAIN known'
           /\ \A s \in DOMAIN known' : Brought(s, known'[s])
    BY <1>2, StoreNext
  <2>2. DOMAIN known' \subseteq Snapshots /\ offered' \subseteq Snapshots \X Contents \X BOOLEAN
    BY <1>2, Kinds DEF TypeInv, Partial
  <2> QED
    BY <2>1, <2>2 DEF Store!Next, Store!Explained, Brought
<1>3. TypeInv /\ [Next]_vars => TypeInv'
  BY TypeNext
<1>4. Init => TypeInv
  BY TypeInit
<1> QED
  BY <1>1, <1>2, <1>3, StoreAlways, PTL DEF Spec, StoreIsKept, Store!Spec
=============================================================================
