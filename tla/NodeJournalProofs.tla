-------------------------- MODULE NodeJournalProofs --------------------------
(***************************************************************************)
(* A command's work runs once, the file says what memory says, and what is *)
(* answered is durable: for any operations, any number of deliveries and   *)
(* of starts, and any compaction threshold.                                *)
(*                                                                         *)
(* A file is reasoned about through what a load finds in it: LoadAppend    *)
(* for a line, LinesLoad for a compaction, LoadKept for a start,           *)
(* CrashKeepsSynced for what a crash leaves.                               *)
(***************************************************************************)
EXTENDS NodeJournalProps, FiniteSetTheorems, WellFoundedInduction, TLAPS

\* A file of whole lines, the last perhaps without its newline.
Whole(f) ==
    \A i \in 1 .. Len(f) : IF i % 2 = 0 THEN f[i] = Newline ELSE f[i] \in Ops \X Results

Synced == SubSeq(file, 1, synced)
Sound(o) == o \notin overlapped /\ ~damaged

\* Two deliveries of one command run at once only where that is noted.
UniqueInv ==
    \A t, u \in Tasks :
        t # u /\ Running(t) /\ Running(u) /\ op[t] = op[u] => op[t] \in overlapped

\* One task at a time is between a line and its sync.
LockInv == \A t, u \in Tasks : pc[t] = "sync" /\ pc[u] = "sync" => t = u

\* While the process is down no task is left, the file is all there is, and there
\* will be another start.
DownInv == ~alive => /\ synced = Len(file) /\ boots < MaxBoots
                     /\ \A t \in Tasks : ~Running(t)

\* What a task has established where it is, of its own record in memory.
Place(t) ==
    /\ Running(t) => op[t] \in Ops
    /\ pc[t] \in {"insert", "line", "sync", "copy", "rename", "reopen"} => answer[t] # "failed"
    /\ pc[t] \in {"line", "sync", "copy", "rename", "reopen"} =>
          result[t] \in {"none", answer[t]}
    /\ pc[t] = "result" => answer[t] \in Finished
    /\ pc[t] \in {"idle", "replay", "inflight", "work"} => answer[t] = "unanswered"
    /\ op[t] \notin overlapped =>
        /\ pc[t] = "inflight" => index[op[t]] \notin Finished
        /\ pc[t] \in {"line", "sync", "copy", "rename", "reopen"} => index[op[t]] = result[t]
        /\ pc[t] = "work" => index[op[t]] = "none"
        /\ pc[t] = "report" /\ answer[t] \in Finished => index[op[t]] = answer[t]

PlaceInv == \A t \in Tasks : Place(t)

\* An undamaged file: whole lines, all synced but perhaps the last one, of the
\* task that is about to sync it.
FileInv ==
    alive /\ ~damaged =>
        /\ Whole(file)
        /\ \/ synced = Len(file)
           \/ \E t \in Tasks :
                 /\ pc[t] = "sync" /\ synced = Len(file) - 2 /\ Len(file) % 2 = 0
                 /\ file[synced + 1] = Record(op[t], result[t])

\* No task is between the record of o in memory and its line.
Written(o) == \A t \in Tasks : pc[t] = "line" => op[t] # o

MemInv ==
    alive => \A o \in Ops : Sound(o) /\ Written(o) => Load(file)[o] = index[o]

\* A copy that is up to date says of an operation what the file says, or it has
\* a record whose line is still to come.
CopyInv ==
    \A t \in Tasks : pc[t] = "rename" /\ ~copy[t].behind =>
        \A o \in Ops : Sound(o) =>
            \/ copy[t].records[o] = Load(file)[o]
            \/ copy[t].records[o] # "absent" /\ ~Written(o)

\* Tasks that are to run the work.
ToWork(t) ==
    /\ pc[t] \in {"insert", "line", "sync", "copy", "rename", "reopen", "work"}
    /\ answer[t] = "unanswered"

\* Work that ran is known to the synced part of the file.
RunInv ==
    ~damaged =>
        /\ \A o \in Ops : o \notin overlapped /\ runs[o] > 0 =>
              runs[o] = 1 /\ Load(Synced)[o] # "absent"
        /\ \A t \in Tasks : ToWork(t) /\ op[t] \notin overlapped => runs[op[t]] = 0

IInv == /\ TypeOK /\ UniqueInv /\ LockInv /\ DownInv /\ PlaceInv
        /\ FileInv /\ MemInv /\ CopyInv /\ RunInv
-----------------------------------------------------------------------------
(* The operators on files. *)

Parses(f, n) ==
    \A i \in 1 .. n :
        IF i % 2 = 0 THEN f[i] = Newline
        ELSE f[i] \in Ops \X Results /\ (i < Len(f) => f[i + 1] = Newline)

Mine(f, o) == {i \in 1 .. Kept(f) : i % 2 = 1 /\ f[i][1] = o}

\* The numbers below another, as a relation.
Less == {p \in Nat \X Nat : p[1] < p[2]}

\* The least-number principle, for sets.
LEMMA LessIsWellFounded == IsWellFoundedOn(Less, Nat)
BY NatLessThanWellFounded DEF OpToRel, Less

\* A set of numbers with a member has a least.
LEMMA LeastExists ==
    ASSUME NEW T, T \subseteq Nat, T # {}
    PROVE  \E x \in T : \A y \in T : <<y, x>> \notin Less
BY LessIsWellFounded, WFMin

\* A bounded set of numbers with a member has a largest.
LEMMA LargestExists ==
    ASSUME NEW b \in Nat, NEW S \in SUBSET (0 .. b), S # {}
    PROVE  \E m \in S : \A n \in S : n <= m
<1> DEFINE T == {b - n : n \in S}
<1>1. T \subseteq Nat /\ T # {}
  <2>1. PICK n \in S : TRUE
    OBVIOUS
  <2>2. b - n \in T
    OBVIOUS
  <2>3. \A k \in 0 .. b : b - k \in Nat
    OBVIOUS
  <2> QED BY <2>2, <2>3
<1>2. PICK x \in T : \A y \in T : <<y, x>> \notin Less
  <2> HIDE DEF T
  <2> QED BY <1>1, LeastExists, Zenon
<1>3. ASSUME NEW y \in T PROVE x <= y
  <2> HIDE DEF T
  <2>1. x \in Nat /\ y \in Nat
    BY <1>1
  <2>2. ASSUME y < x PROVE FALSE
    <3>1. <<y, x>> \in Less
      BY <2>1, <2>2 DEF Less
    <3> QED BY <1>2, <3>1
  <2> QED BY <2>1, <2>2
<1>4. PICK m \in S : x = b - m
  OBVIOUS
<1>5. ASSUME NEW n \in S PROVE n <= m
  <2>1. x <= b - n
    BY <1>3
  <2> QED BY <2>1, <1>4
<1> QED BY <1>5

\* What `open` keeps is the longest part of the file that parses.
LEMMA KeptIsLongest ==
    ASSUME NEW f \in Seq(Pieces)
    PROVE  /\ Kept(f) \in 0 .. Len(f) /\ Parses(f, Kept(f))
           /\ \A n \in 0 .. Len(f) : Parses(f, n) => n <= Kept(f)
<1> DEFINE S == {n \in 0 .. Len(f) : Parses(f, n)}
<1>1. Parses(f, 0)
  BY DEF Parses
<1>2. Len(f) \in Nat
  OBVIOUS
<1>3. 0 \in S
  BY <1>1, <1>2
<1>4. PICK k \in S : \A n \in S : n <= k
  BY <1>2, <1>3, LargestExists, Zenon
<1> DEFINE Q(n) == Parses(f, n) /\ \A m \in n + 1 .. Len(f) : ~Parses(f, m)
<1>5. Kept(f) = CHOOSE n \in 0 .. Len(f) : Q(n)
  BY DEF Kept, Parses
<1>6. k \in 0 .. Len(f) /\ Q(k)
  <2>1. ASSUME NEW m \in k + 1 .. Len(f) PROVE ~Parses(f, m)
    BY <1>2, <1>4
  <2> QED BY <2>1
<1>7. Kept(f) \in 0 .. Len(f) /\ Q(Kept(f))
  <2> HIDE DEF Q
  <2> QED BY <1>5, <1>6, Zenon
<1>8. ASSUME NEW n \in 0 .. Len(f), Parses(f, n) PROVE n <= Kept(f)
  <2>1. n \notin Kept(f) + 1 .. Len(f)
    BY <1>7, <1>8
  <2> QED BY <1>2, <1>7, <2>1
<1> QED BY <1>7, <1>8
\* A start keeps all of a file of whole lines.
LEMMA WholeIsKept ==
    ASSUME NEW f \in Seq(Pieces), Whole(f)
    PROVE  Kept(f) = Len(f)
<1>1. Len(f) \in Nat
  OBVIOUS
<1>2. Parses(f, Len(f))
  <2> SUFFICES ASSUME NEW i \in 1 .. Len(f), i % 2 # 0
               PROVE  i < Len(f) => f[i + 1] = Newline
    BY DEF Parses, Whole
  <2>1. ASSUME i < Len(f) PROVE i + 1 \in 1 .. Len(f) /\ (i + 1) % 2 = 0
    BY <1>1, <2>1
  <2> QED BY <2>1 DEF Whole
<1> QED BY <1>1, <1>2, KeptIsLongest

\* The part of a file that parses is a file of whole lines.
LEMMA PrefixIsWhole ==
    ASSUME NEW f \in Seq(Pieces), NEW n \in 0 .. Len(f), Parses(f, n)
    PROVE  /\ SubSeq(f, 1, n) \in Seq(Pieces) /\ Len(SubSeq(f, 1, n)) = n
           /\ Whole(SubSeq(f, 1, n))
<1>1. SubSeq(f, 1, n) \in Seq(Pieces) /\ Len(SubSeq(f, 1, n)) = n
      /\ \A i \in 1 .. n : SubSeq(f, 1, n)[i] = f[i]
  OBVIOUS
<1> QED BY <1>1 DEF Whole, Parses

\* A record that parses is an operation and its result.
LEMMA MineIsRecord ==
    ASSUME NEW f \in Seq(Pieces), NEW o, NEW i \in Mine(f, o)
    PROVE  /\ i \in 1 .. Len(f) /\ i <= Kept(f) /\ i % 2 = 1
           /\ f[i] \in Ops \X Results /\ f[i][1] = o /\ f[i][2] \in Results
<1>1. Len(f) \in Nat /\ Kept(f) \in 0 .. Len(f)
  BY KeptIsLongest
<1>2. i \in 1 .. Kept(f) /\ i % 2 = 1 /\ f[i][1] = o
  BY DEF Mine
<1>3. f[i] \in Ops \X Results
  BY <1>2, KeptIsLongest DEF Parses
<1>4. \A p \in Ops \X Results : p[2] \in Results
  OBVIOUS
<1> QED BY <1>1, <1>2, <1>3, <1>4

\* The last record of an operation is what a load finds of it.
LEMMA LoadIsLast ==
    ASSUME NEW f \in Seq(Pieces), NEW o \in Ops, NEW i \in Mine(f, o),
           \A j \in Mine(f, o) : j <= i
    PROVE  Load(f)[o] = f[i][2]
<1>1. Load(f)[o] = f[CHOOSE j \in Mine(f, o) : \A k \in Mine(f, o) : k <= j][2]
  BY DEF Load, Mine
<1>2. \A j \in Mine(f, o) : j \in Nat
  BY MineIsRecord
<1>3. (CHOOSE j \in Mine(f, o) : \A k \in Mine(f, o) : k <= j) = i
  <2> DEFINE R(j) == \A k \in Mine(f, o) : k <= j
  <2>1. R(i) /\ \A j \in Mine(f, o) : R(j) => j = i
    BY <1>2
  <2> HIDE DEF R
  <2>2. (CHOOSE j \in Mine(f, o) : R(j)) = i
    BY <2>1
  <2> QED BY <2>2 DEF R
<1> QED BY <1>1, <1>3

\* An operation without a record in the file is not found.
LEMMA LoadAbsent ==
    ASSUME NEW f \in Seq(Pieces), NEW o \in Ops, Mine(f, o) = {}
    PROVE  Load(f)[o] = "absent"
BY DEF Load, Mine

\* An operation with a record in the file has a last one, which is loaded.
LEMMA LoadPresent ==
    ASSUME NEW f \in Seq(Pieces), NEW o \in Ops, Mine(f, o) # {}
    PROVE  \E i \in Mine(f, o) : /\ \A j \in Mine(f, o) : j <= i
                                 /\ Load(f)[o] = f[i][2] /\ Load(f)[o] \in Results
<1>1. Mine(f, o) \in SUBSET (0 .. Len(f)) /\ Len(f) \in Nat
  BY MineIsRecord
<1>2. PICK i \in Mine(f, o) : \A j \in Mine(f, o) : j <= i
  BY <1>1, LargestExists, Zenon
<1> QED BY <1>2, LoadIsLast, MineIsRecord

\* A load gives every operation a record or none.
LEMMA LoadType ==
    ASSUME NEW f \in Seq(Pieces)
    PROVE  Load(f) \in [Ops -> Results \cup {"absent"}]
<1>1. ASSUME NEW o \in Ops PROVE Load(f)[o] \in Results \cup {"absent"}
  BY LoadAbsent, LoadPresent
<1>2. Load(f) = [o \in Ops |-> Load(f)[o]]
  BY DEF Load
<1> QED BY <1>1, <1>2

\* Files of the same kept lines load alike.
LEMMA LoadSame ==
    ASSUME NEW f \in Seq(Pieces), NEW g \in Seq(Pieces), Kept(f) = Kept(g),
           \A i \in 1 .. Kept(f) : f[i] = g[i]
    PROVE  Load(f) = Load(g)
<1>1. ASSUME NEW o \in Ops PROVE Load(f)[o] = Load(g)[o]
  <2>1. Mine(f, o) = Mine(g, o)
    BY DEF Mine
  <2>2. CASE Mine(f, o) = {}
    BY <2>1, <2>2, LoadAbsent
  <2>3. CASE Mine(f, o) # {}
    <3>1. PICK i \in Mine(f, o) : \A j \in Mine(f, o) : j <= i
      BY <2>3, LoadPresent
    <3>2. f[i] = g[i]
      BY DEF Mine
    <3> QED BY <2>1, <3>1, <3>2, LoadIsLast
  <2> QED BY <2>2, <2>3
<1> QED BY <1>1, LoadType

\* A file with more kept lines finds every operation that one with fewer finds.
LEMMA LoadGrows ==
    ASSUME NEW f \in Seq(Pieces), NEW g \in Seq(Pieces), Kept(f) <= Kept(g),
           \A i \in 1 .. Kept(f) : f[i] = g[i],
           NEW o \in Ops, Load(f)[o] # "absent"
    PROVE  Load(g)[o] # "absent"
<1>1. PICK i \in Mine(f, o) : TRUE
  BY LoadAbsent
<1>2. i \in Mine(g, o)
  <2>1. Kept(f) \in Nat /\ Kept(g) \in Nat
    BY KeptIsLongest
  <2> QED BY <2>1 DEF Mine
<1>3. Load(g)[o] \in Results
  BY <1>2, LoadPresent
<1> QED BY <1>3 DEF Results, Finished

\* What a start writes anew loads as the file it found.
LEMMA LoadKept ==
    ASSUME NEW f \in Seq(Pieces)
    PROVE  LET g == SubSeq(f, 1, Kept(f))
           IN  /\ g \in Seq(Pieces) /\ Whole(g) /\ Len(g) = Kept(f) /\ Kept(g) = Kept(f)
               /\ Load(g) = Load(f)
<1> DEFINE g == SubSeq(f, 1, Kept(f))
<1>1. Kept(f) \in 0 .. Len(f) /\ Parses(f, Kept(f))
  BY KeptIsLongest
<1>2. g \in Seq(Pieces) /\ Whole(g) /\ Len(g) = Kept(f)
  BY <1>1, PrefixIsWhole
<1>3. \A i \in 1 .. Kept(f) : f[i] = g[i]
  BY <1>1
<1>4. Kept(g) = Kept(f)
  BY <1>2, WholeIsKept
<1>5. Load(g) = Load(f)
  <2> HIDE DEF g
  <2> QED BY <1>2, <1>3, <1>4, LoadSame
<1> QED BY <1>2, <1>4, <1>5
\* A line added behind whole lines changes what is found of its operation alone.
LEMMA LoadAppend ==
    ASSUME NEW f \in Seq(Pieces), Whole(f), Len(f) % 2 = 0,
           NEW o \in Ops, NEW r \in Results
    PROVE  LET g == f \o <<Record(o, r), Newline>>
           IN  /\ g \in Seq(Pieces) /\ Whole(g) /\ Len(g) = Len(f) + 2 /\ Len(g) % 2 = 0
               /\ g[Len(f) + 1] = Record(o, r) /\ SubSeq(g, 1, Len(f)) = f
               /\ Load(g) = [Load(f) EXCEPT ![o] = r]
<1> DEFINE g == f \o <<Record(o, r), Newline>>
<1> DEFINE n == Len(f)
<1>1. n \in Nat /\ n % 2 = 0 /\ (n + 1) % 2 = 1 /\ (n + 2) % 2 = 0
  <2>1. n \in Nat
    OBVIOUS
  <2> HIDE DEF n
  <2>2. n % 2 = 0
    BY DEF n
  <2> QED BY <2>1, <2>2
<1>2. Record(o, r) \in Ops \X Results /\ Record(o, r)[1] = o /\ Record(o, r)[2] = r
  BY DEF Record
<1>3. Record(o, r) \in Pieces /\ Newline \in Pieces
  BY <1>2 DEF Pieces
<1>4. <<Record(o, r), Newline>> \in Seq(Pieces)
  BY <1>3
<1>5. /\ g \in Seq(Pieces) /\ Len(g) = n + 2
      /\ \A i \in 1 .. n : g[i] = f[i]
      /\ g[n + 1] = Record(o, r) /\ g[n + 2] = Newline
  BY <1>4
<1>6. Whole(g)
  <2> SUFFICES ASSUME NEW i \in 1 .. n + 2
               PROVE  IF i % 2 = 0 THEN g[i] = Newline ELSE g[i] \in Ops \X Results
    BY <1>5 DEF Whole
  <2> HIDE DEF g, n
  <2>1. CASE i \in 1 .. n
    BY <1>5, <2>1 DEF Whole, n
  <2>2. CASE i = n + 1
    BY <1>1, <1>2, <1>5, <2>2
  <2>3. CASE i = n + 2
    BY <1>1, <1>5, <2>3
  <2> QED BY <1>1, <2>1, <2>2, <2>3
<1>7. SubSeq(g, 1, n) = f
  <2>1. SubSeq(g, 1, n) \in Seq(Pieces) /\ Len(SubSeq(g, 1, n)) = n
        /\ \A i \in 1 .. n : SubSeq(g, 1, n)[i] = f[i]
    <3> HIDE DEF g
    <3> QED BY <1>5
  <2> HIDE DEF g
  <2> QED BY <2>1
<1>8. Kept(f) = n /\ Kept(g) = n + 2
  BY <1>5, <1>6, WholeIsKept
<1>9. \A q \in Ops : Mine(g, q) = IF q = o THEN Mine(f, q) \cup {n + 1} ELSE Mine(f, q)
  <2> TAKE q \in Ops
  <2> HIDE DEF g, n
  <2>1. \A i : i \in 1 .. n + 2 <=> i \in 1 .. n \/ i = n + 1 \/ i = n + 2
    BY <1>1
  <2>2. \A i \in 1 .. n : i \in Mine(g, q) <=> i \in Mine(f, q)
    BY <1>1, <1>5, <1>8 DEF Mine
  <2>3. n + 1 \in Mine(g, q) <=> q = o
    BY <1>1, <1>2, <1>5, <1>8 DEF Mine
  <2>4. n + 2 \notin Mine(g, q) /\ n + 1 \notin Mine(f, q) /\ n + 2 \notin Mine(f, q)
    BY <1>1, <1>8 DEF Mine
  <2>5. Mine(g, q) \subseteq 1 .. n + 2 /\ Mine(f, q) \subseteq 1 .. n
    BY <1>8 DEF Mine
  <2>6. \A i : i \in Mine(g, q) <=> i \in Mine(f, q) \/ (q = o /\ i = n + 1)
    <3> TAKE i
    <3>1. CASE i \in 1 .. n
      <4>1. i # n + 1
        BY <1>1, <3>1
      <4> QED BY <2>2, <3>1, <4>1
    <3>2. CASE i = n + 1
      BY <2>3, <2>4, <3>2
    <3>3. CASE i = n + 2
      <4>1. i # n + 1
        BY <1>1, <3>3
      <4> QED BY <2>4, <3>3, <4>1
    <3> QED BY <2>1, <2>5, <3>1, <3>2, <3>3
  <2> QED BY <2>6
<1>10. \A q \in Ops : Load(g)[q] = IF q = o THEN r ELSE Load(f)[q]
  <2> TAKE q \in Ops
  <2> HIDE DEF g
  <2>1. CASE q = o
    <3>1. n + 1 \in Mine(g, o)
      BY <1>9
    <3>2. \A j \in Mine(f, o) : j <= n + 1
      BY <1>1, MineIsRecord
    <3>3. \A j \in Mine(g, o) : j <= n + 1
      BY <1>1, <1>9, <3>2
    <3> QED BY <1>2, <1>5, <2>1, <3>1, <3>3, LoadIsLast
  <2>2. CASE q # o /\ Mine(f, q) = {}
    BY <1>5, <1>9, <2>2, LoadAbsent
  <2>3. CASE q # o /\ Mine(f, q) # {}
    <3>1. PICK i \in Mine(f, q) : (\A j \in Mine(f, q) : j <= i) /\ Load(f)[q] = f[i][2]
      BY <2>3, LoadPresent
    <3>2. i \in 1 .. n
      BY MineIsRecord
    <3>3. Load(g)[q] = g[i][2]
      BY <1>5, <1>9, <2>3, <3>1, LoadIsLast
    <3> QED BY <1>5, <2>3, <3>1, <3>2, <3>3
  <2> QED BY <2>1, <2>2, <2>3
<1>11. Load(g) = [Load(f) EXCEPT ![o] = r]
  <2> HIDE DEF g
  <2>1. /\ Load(f) \in [Ops -> Results \cup {"absent"}]
        /\ Load(g) \in [Ops -> Results \cup {"absent"}]
    BY <1>5, LoadType
  <2> QED BY <1>10, <2>1
<1> QED BY <1>1, <1>5, <1>6, <1>7, <1>11

\* A finite set's members in a sequence: each of them once.
LEMMA SetToSeqIsBijection ==
    ASSUME NEW S, IsFiniteSet(S)
    PROVE  LET s == SetToSeq(S)
           IN  /\ s \in Seq(S)
               /\ \A i, j \in 1 .. Len(s) : s[i] = s[j] => i = j
               /\ \A x \in S : \E i \in 1 .. Len(s) : s[i] = x
<1> DEFINE n == Cardinality(S)
<1> DEFINE s == SetToSeq(S)
<1>1. n \in Nat /\ ExistsBijection(1 .. n, S)
  BY FS_CardinalityType
<1>2. PICK b \in Bijection(1 .. n, S) : TRUE
  BY <1>1 DEF ExistsBijection
<1>3. b \in [1 .. n -> S] /\ IsInjective(b)
  BY <1>2 DEF Bijection, Injection, Surjection, IsInjective
<1>4. s \in [1 .. n -> S] /\ IsInjective(s)
  BY <1>3, Zenon DEF SetToSeq
<1>5. s \in Injection(1 .. n, S)
  BY <1>4 DEF Injection, IsInjective
<1>6. IsFiniteSet(1 .. n) /\ Cardinality(1 .. n) = n
  BY <1>1, FS_Interval
<1>7. s \in Surjection(1 .. n, S)
  BY <1>5, <1>6, FS_Injection
<1>8. s \in Seq(S) /\ Len(s) = n
  <2> HIDE DEF s, n
  <2> QED BY <1>1, <1>4
<1> QED BY <1>4, <1>7, <1>8 DEF IsInjective, Surjection

\* A compacted file says what the copied index said.
LEMMA LinesLoad ==
    ASSUME NEW records \in [Ops -> Results \cup {"absent"}]
    PROVE  LET f == Lines(records)
           IN  /\ f \in Seq(Pieces) /\ Whole(f) /\ Len(f) % 2 = 0
               /\ Load(f) = records
<1> DEFINE K == {o \in Ops : records[o] # "absent"}
<1> DEFINE known == SetToSeq(K)
<1> DEFINE k == Len(known)
<1> DEFINE f == Lines(records)
<1>1. IsFiniteSet(K)
  BY NodeJournalAssumption, FS_Subset
<1>2. /\ known \in Seq(K)
      /\ \A i, j \in 1 .. k : known[i] = known[j] => i = j
      /\ \A x \in K : \E i \in 1 .. k : known[i] = x
  <2> HIDE DEF K
  <2> QED BY <1>1, SetToSeqIsBijection
<1>3. k \in Nat /\ \A i \in 1 .. k : known[i] \in K
  <2> HIDE DEF known, K
  <2> QED BY <1>2
<1>4. \A i \in 1 .. k : /\ known[i] \in Ops /\ records[known[i]] \in Results
                        /\ Record(known[i], records[known[i]]) \in Ops \X Results
  <2> TAKE i \in 1 .. k
  <2>1. known[i] \in Ops /\ records[known[i]] # "absent"
    <3> HIDE DEF known
    <3> QED BY <1>3
  <2> QED BY <2>1 DEF Record
<1>5. f = [i \in 1 .. 2 * k |->
              IF i % 2 = 0 THEN Newline
              ELSE Record(known[(i + 1) \div 2], records[known[(i + 1) \div 2]])]
  BY DEF Lines
<1> HIDE DEF f, known, K, k
<1>6. \A i \in 1 .. 2 * k : i % 2 # 0 => /\ i % 2 = 1 /\ (i + 1) \div 2 \in 1 .. k
                                         /\ i = 2 * ((i + 1) \div 2) - 1
  BY <1>3
<1>7. \A j \in 1 .. k : /\ 2 * j - 1 \in 1 .. 2 * k /\ (2 * j - 1) % 2 = 1
                        /\ (2 * j - 1 + 1) \div 2 = j
  BY <1>3
<1>8. 2 * k \in Nat /\ (2 * k) % 2 = 0
  BY <1>3
<1>9. \A i \in 1 .. 2 * k : IF i % 2 = 0 THEN f[i] = Newline ELSE f[i] \in Ops \X Results
  <2> TAKE i \in 1 .. 2 * k
  <2>1. CASE i % 2 = 0
    BY <1>5, <2>1
  <2>2. CASE i % 2 # 0
    <3> DEFINE j == (i + 1) \div 2
    <3>1. j \in 1 .. k
      BY <1>6, <2>2
    <3>2. f[i] = Record(known[j], records[known[j]])
      BY <1>5, <2>2
    <3> HIDE DEF j
    <3> QED BY <1>4, <2>2, <3>1, <3>2
  <2> QED BY <2>1, <2>2
<1>10. f \in Seq(Pieces) /\ Len(f) = 2 * k
  <2>1. \A i \in 1 .. 2 * k : f[i] \in Pieces
    BY <1>9 DEF Pieces
  <2>2. f \in [1 .. 2 * k -> Pieces]
    BY <1>5, <2>1
  <2> QED BY <1>8, <2>2
<1>11. Whole(f)
  BY <1>9, <1>10 DEF Whole
<1>12. Kept(f) = 2 * k
  BY <1>10, <1>11, WholeIsKept
<1>13. \A j \in 1 .. k : f[2 * j - 1] = Record(known[j], records[known[j]])
  <2> TAKE j \in 1 .. k
  <2>1. 2 * j - 1 \in 1 .. 2 * k /\ (2 * j - 1) % 2 # 0 /\ (2 * j - 1 + 1) \div 2 = j
    BY <1>7
  <2> QED BY <1>5, <2>1
<1>14. ASSUME NEW o \in Ops PROVE Load(f)[o] = records[o]
  <2>1. \A i \in Mine(f, o) : \E j \in 1 .. k : i = 2 * j - 1 /\ known[j] = o
    <3> TAKE i \in Mine(f, o)
    <3>1. i \in 1 .. 2 * k /\ i % 2 # 0 /\ f[i][1] = o
      BY <1>12 DEF Mine
    <3> DEFINE j == (i + 1) \div 2
    <3>2. j \in 1 .. k /\ i = 2 * j - 1
      BY <1>6, <3>1
    <3> HIDE DEF j
    <3>3. f[i] = Record(known[j], records[known[j]])
      BY <1>13, <3>2
    <3> QED BY <3>1, <3>2, <3>3 DEF Record
  <2>2. CASE o \in K
    <3>1. PICK j \in 1 .. k : known[j] = o
      BY <1>2, <2>2
    <3>2. /\ f[2 * j - 1] = Record(o, records[o])
          /\ 2 * j - 1 \in 1 .. 2 * k /\ (2 * j - 1) % 2 = 1
      BY <1>7, <1>13, <3>1
    <3>3. 2 * j - 1 \in Mine(f, o)
      BY <1>12, <3>2 DEF Mine, Record
    <3>4. \A i \in Mine(f, o) : i = 2 * j - 1
      BY <1>2, <2>1, <3>1
    <3>5. \A i \in Mine(f, o) : i <= 2 * j - 1
      BY <3>1, <3>4
    <3>6. Load(f)[o] = f[2 * j - 1][2]
      BY <1>10, <3>3, <3>5, LoadIsLast
    <3> QED BY <3>2, <3>6 DEF Record
  <2>3. CASE o \notin K
    <3>1. Mine(f, o) = {}
      BY <1>3, <2>1, <2>3
    <3>2. records[o] = "absent"
      BY <2>3 DEF K
    <3> QED BY <1>10, <3>1, <3>2, LoadAbsent
  <2> QED BY <2>2, <2>3
<1>15. Load(f) = records
  BY <1>10, <1>14, LoadType
<1> QED BY <1>8, <1>10, <1>11, <1>15 DEF f

\* Every part of a file of whole lines parses.
LEMMA WholeParses ==
    ASSUME NEW f \in Seq(Pieces), Whole(f), NEW n \in 0 .. Len(f)
    PROVE  Parses(f, n)
<1>1. Len(f) \in Nat
  OBVIOUS
<1>2. SUFFICES ASSUME NEW i \in 1 .. n, i % 2 # 0
               PROVE  f[i] \in Ops \X Results /\ (i < Len(f) => f[i + 1] = Newline)
  BY <1>1 DEF Whole, Parses
<1>3. ASSUME i < Len(f) PROVE i + 1 \in 1 .. Len(f) /\ (i + 1) % 2 = 0
  BY <1>1, <1>2, <1>3
<1> QED BY <1>1, <1>2, <1>3 DEF Whole

\* What a crash may leave of a file.
Remains(f, s) ==
    {SubSeq(f, 1, n) : n \in s .. Len(f)}
        \cup {Append(SubSeq(f, 1, n), Torn) : n \in s .. Len(f) - 1}

\* Whatever a crash leaves, what was synced is still found.
LEMMA CrashKeepsSynced ==
    ASSUME NEW f \in Seq(Pieces), Whole(f), NEW s \in 0 .. Len(f),
           s = Len(f) \/ (s = Len(f) - 2 /\ Len(f) % 2 = 0),
           NEW g \in Remains(f, s), NEW o \in Ops, Load(SubSeq(f, 1, s))[o] # "absent"
    PROVE  Load(g)[o] # "absent"
<1> DEFINE d == SubSeq(f, 1, s)
<1>1. Len(f) \in Nat /\ s \in Nat
  OBVIOUS
<1>2. Parses(f, s)
  BY WholeParses
<1>3. d \in Seq(Pieces) /\ Kept(d) = s /\ Whole(d) /\ \A i \in 1 .. s : d[i] = f[i]
  <2>1. d \in Seq(Pieces) /\ Whole(d) /\ Len(d) = s
    BY <1>2, PrefixIsWhole
  <2>2. \A i \in 1 .. s : d[i] = f[i]
    BY <1>1
  <2>3. Kept(d) = s
    <3> HIDE DEF d
    <3> QED BY <2>1, WholeIsKept
  <2> QED BY <2>1, <2>2, <2>3
<1>4. /\ g \in Seq(Pieces) /\ s <= Len(g) /\ \A i \in 1 .. s : g[i] = f[i]
      /\ s = Len(f) => Len(g) = s
  <2>1. Torn \in Pieces
    BY DEF Pieces
  <2>2. CASE \E n \in s .. Len(f) : g = SubSeq(f, 1, n)
    BY <1>1, <2>2
  <2>3. CASE \E n \in s .. Len(f) - 1 : g = Append(SubSeq(f, 1, n), Torn)
    <3>1. PICK n \in s .. Len(f) - 1 : g = Append(SubSeq(f, 1, n), Torn)
      BY <2>3
    <3> DEFINE h == SubSeq(f, 1, n)
    <3>2. h \in Seq(Pieces) /\ Len(h) = n /\ \A i \in 1 .. n : h[i] = f[i]
      BY <1>1
    <3> HIDE DEF h
    <3>3. g = Append(h, Torn)
      BY <3>1 DEF h
    <3> QED BY <1>1, <2>1, <3>2, <3>3
  <2> QED BY <2>2, <2>3 DEF Remains
<1>5. Parses(g, s)
  <2> SUFFICES ASSUME NEW i \in 1 .. s, i % 2 # 0, i < Len(g) PROVE g[i + 1] = Newline
    BY <1>2, <1>4 DEF Parses
  <2>1. Len(g) \in Nat
    BY <1>4
  <2>2. CASE i < s
    <3>1. i + 1 \in 1 .. s /\ (i + 1) % 2 = 0
      BY <1>1, <2>2
    <3> QED BY <1>2, <1>4, <3>1 DEF Parses
  <2>3. CASE i = s
    <3>1. s = Len(f) - 2 /\ Len(f) % 2 = 0
      BY <1>4, <2>3
    <3>2. s % 2 = 0
      BY <1>1, <3>1
    <3> QED BY <2>3, <3>2
  <2> QED BY <1>1, <2>2, <2>3
<1>6. s <= Kept(g)
  BY <1>1, <1>4, <1>5, KeptIsLongest
<1> HIDE DEF d
<1>7. Load(d)[o] # "absent" /\ Kept(d) <= Kept(g) /\ \A i \in 1 .. Kept(d) : d[i] = g[i]
  BY <1>3, <1>4, <1>6 DEF d
<1> QED BY <1>3, <1>4, <1>7, LoadGrows

-----------------------------------------------------------------------------
(* The file as the invariant has it. *)

\* No record of o waits for its sync.
Quiet(o) == \A t \in Tasks : pc[t] = "sync" => op[t] # o

\* The synced part of an undamaged file says of such an operation what the file
\* says, and it says no less of any other.
LEMMA SyncedLoad ==
    ASSUME TypeOK, PlaceInv, FileInv, alive, ~damaged, NEW o \in Ops
    PROVE  /\ Synced \in Seq(Pieces)
           /\ Quiet(o) => Load(Synced)[o] = Load(file)[o]
           /\ Load(Synced)[o] # "absent" => Load(file)[o] # "absent"
<1>1. file \in Seq(Pieces) /\ synced \in 0 .. Len(file) /\ Len(file) \in Nat /\ Whole(file)
  BY DEF TypeOK, FileInv
<1>2. Synced \in Seq(Pieces) /\ Whole(Synced) /\ Len(Synced) = synced
  BY <1>1, WholeParses, PrefixIsWhole DEF Synced
<1>3. CASE synced = Len(file)
  <2>1. Synced = file
    BY <1>1, <1>3 DEF Synced
  <2> QED BY <1>2, <2>1
<1>4. CASE synced # Len(file)
  <2>1. PICK t \in Tasks : /\ pc[t] = "sync" /\ synced = Len(file) - 2 /\ Len(file) % 2 = 0
                           /\ file[synced + 1] = Record(op[t], result[t])
    BY <1>4 DEF FileInv
  <2>2. op[t] \in Ops /\ result[t] \in Results
    BY <2>1 DEF PlaceInv, Place, Running, TypeOK
  <2>3. synced \in Nat /\ synced % 2 = 0 /\ (synced + 2) % 2 = 0 /\ Len(file) = synced + 2
    BY <1>1, <2>1
  <2> DEFINE g == Synced \o <<Record(op[t], result[t]), Newline>>
  <2>4. file = g
    <3>1. file[synced + 2] = Newline
      BY <1>1, <2>3 DEF Whole
    <3>2. /\ <<Record(op[t], result[t]), Newline>> \in Seq(Pieces)
          /\ Len(<<Record(op[t], result[t]), Newline>>) = 2
      BY <2>2 DEF Record, Pieces
    <3>3. g \in Seq(Pieces) /\ Len(g) = synced + 2
      BY <1>2, <2>3, <3>2
    <3>4. \A i \in 1 .. synced : Synced[i] = file[i]
      BY <1>1 DEF Synced
    <3>5. ASSUME NEW i \in 1 .. synced + 2 PROVE file[i] = g[i]
      <4>1. CASE i \in 1 .. synced
        <5>1. g[i] = Synced[i]
          BY <1>2, <3>2, <4>1
        <5> QED BY <3>4, <4>1, <5>1
      <4>2. CASE i = synced + 1
        <5>1. g[i] = Record(op[t], result[t])
          BY <1>2, <2>3, <3>2, <4>2
        <5> QED BY <2>1, <4>2, <5>1
      <4>3. CASE i = synced + 2
        <5>1. g[i] = Newline
          BY <1>2, <2>3, <3>2, <4>3
        <5> QED BY <3>1, <4>3, <5>1
      <4>4. synced \in Nat
        BY <1>1
      <4>5. i \in 1 .. synced \/ i = synced + 1 \/ i = synced + 2
        BY ONLY <3>5, <4>4
      <4> QED BY <4>1, <4>2, <4>3, <4>5
    <3> HIDE DEF g
    <3> QED BY <1>1, <2>3, <3>3, <3>5
  <2>5. Load(file) = [Load(Synced) EXCEPT ![op[t]] = result[t]]
    BY <1>2, <2>2, <2>3, <2>4, LoadAppend
  <2>6. Load(Synced) \in [Ops -> Results \cup {"absent"}]
    BY <1>2, LoadType
  <2>7. Quiet(o) => op[t] # o
    BY <2>1 DEF Quiet
  <2>8. result[t] # "absent"
    BY <2>2 DEF Results, Finished
  <2> QED BY <1>2, <2>5, <2>6, <2>7, <2>8
<1> QED BY <1>3, <1>4

-----------------------------------------------------------------------------
(* What a step of a task leaves alone. *)

Own(t) ==
    /\ Running(t) /\ (Running(t)' => op'[t] = op[t])
    /\ \A u \in Tasks : u # t => /\ pc'[u] = pc[u] /\ op'[u] = op[u]
                                 /\ result'[u] = result[u] /\ answer'[u] = answer[u]
    /\ \A o \in Ops : o # op[t] => index'[o] = index[o] /\ runs'[o] = runs[o]
    /\ pc'[t] = "sync" => pc[t] = "line" /\ LockFree
    /\ UNCHANGED <<late, process, overlapped>>

\* Each step of a task touches its own place and its own record.
LEMMA StepIsOwn ==
    ASSUME TypeOK, NEW t \in Tasks, Step(t)
    PROVE  Own(t)
<1> USE DEF Own, TypeOK, disk, memory, process, history, Running
<1>1. CASE Replay(t)
  BY <1>1 DEF Replay
<1>2. CASE RefuseInFlight(t)
  BY <1>2 DEF RefuseInFlight
<1>3. CASE Work(t)
  BY <1>3 DEF Work
<1>4. CASE Accept(t)
  BY <1>4 DEF Accept
<1>5. CASE SetResult(t)
  BY <1>5 DEF SetResult
<1>6. CASE WriteLine(t)
  BY <1>6 DEF WriteLine
<1>7. CASE Sync(t)
  BY <1>7 DEF Sync, AfterAppend
<1>8. CASE Copy(t)
  BY <1>8 DEF Copy
<1>9. CASE Rename(t)
  BY <1>9 DEF Rename
<1>10. CASE Reopen(t)
  BY <1>10 DEF Reopen, AfterAppend
<1>11. CASE Report(t)
  BY <1>11 DEF Report, Over
<1> QED BY <1>1, <1>2, <1>3, <1>4, <1>5, <1>6, <1>7, <1>8, <1>9, <1>10, <1>11 DEF Step

Copies == [records : [Ops -> Results \cup {"absent"}], behind : BOOLEAN]

\* The locals of tasks that end.
LEMMA OverType ==
    ASSUME TypeOK, NEW E \in SUBSET Tasks, Over(E)
    PROVE  /\ pc' \in [Tasks -> Pcs] /\ op' \in [Tasks -> Ops \cup {NoOp}]
           /\ result' \in [Tasks -> Results] /\ answer' \in [Tasks -> Answers]
           /\ copy' \in [Tasks -> Copies]
BY DEF Over, TypeOK, Pcs, Results, Answers, NoCopy, Copies

\* The copies are only marked.
LEMMA BehindType ==
    ASSUME TypeOK
    PROVE  Behind \in [Tasks -> Copies]
BY DEF Behind, TypeOK, Copies

\* An append goes on to the answer, the result or the work.
LEMMA AfterAppendType ==
    ASSUME NEW t \in Tasks
    PROVE  AfterAppend(t) \in {"report", "result", "work"}
BY DEF AfterAppend

\* The empty file of a first start.
LEMMA InitIInv ==
    ASSUME Init
    PROVE  IInv
<1> USE NodeJournalAssumption DEF Init
<1>1. file \in Seq(Pieces) /\ Len(file) = 0 /\ synced = Len(file)
  OBVIOUS
<1>2. TypeOK
  <2>1. copy \in [Tasks -> Copies]
    BY DEF NoCopy, Copies
  <2>2. /\ index \in [Ops -> Results \cup {"absent"}] /\ runs \in [Ops -> Nat]
        /\ since \in 0 .. Threshold - 1 /\ boots \in 1 .. MaxBoots
    OBVIOUS
  <2>3. /\ pc \in [Tasks -> Pcs] /\ op \in [Tasks -> Ops \cup {NoOp}]
        /\ result \in [Tasks -> Results] /\ answer \in [Tasks -> Answers]
    BY DEF Results, Answers, Pcs
  <2>4. late \subseteq Ops /\ overlapped \subseteq Ops /\ stale \in BOOLEAN
        /\ alive \in BOOLEAN /\ damaged \in BOOLEAN
    OBVIOUS
  <2>5. synced \in 0 .. Len(file)
    BY <1>1
  <2> QED BY ONLY <1>1, <2>1, <2>2, <2>3, <2>4, <2>5 DEF TypeOK, Copies
<1>3. UniqueInv /\ LockInv /\ DownInv /\ PlaceInv /\ CopyInv
  BY DEF UniqueInv, LockInv, DownInv, PlaceInv, Place, CopyInv, Running
<1>4. FileInv
  BY <1>1 DEF FileInv, Whole
<1>5. Kept(file) = 0
  <2>1. Kept(file) \in 0 .. Len(file)
    BY ONLY <1>1, KeptIsLongest
  <2> QED BY ONLY <1>1, <2>1
<1>6. \A o \in Ops : Mine(file, o) = {}
  BY <1>5 DEF Mine
<1>7. MemInv
  BY <1>1, <1>6, LoadAbsent DEF MemInv
<1>8. RunInv
  BY DEF RunInv, ToWork
<1> QED BY <1>2, <1>3, <1>4, <1>7, <1>8 DEF IInv

\* The file stays one of pieces: a task writes its own record, a compaction
\* records of the index, a crash leaves pieces and a start keeps some of them.
LEMMA TypeStep ==
    ASSUME TypeOK, PlaceInv, DownInv, [Next]_vars
    PROVE  TypeOK'
<1> USE NodeJournalAssumption DEF TypeOK, Copies, disk, memory, process, tasks, history
<1>1. ASSUME NEW t \in Tasks, Step(t) PROVE TypeOK'
  <2>1. Place(t)
    BY DEF PlaceInv
  <2>2. CASE Replay(t)
    BY <2>2 DEF Replay, Pcs, Answers
  <2>3. CASE RefuseInFlight(t)
    <3>1. answer' \in [Tasks -> Answers] /\ pc' \in [Tasks -> Pcs]
      BY <2>3 DEF RefuseInFlight, Pcs, Answers
    <3> QED BY <2>3, <3>1 DEF RefuseInFlight
  <2>4. CASE Work(t)
    <3>1. op[t] \in Ops
      BY <2>1, <2>4 DEF Place, Running, Work
    <3>2. runs' \in [Ops -> Nat]
      BY <2>4, <3>1 DEF Work
    <3> QED BY <2>4, <3>2 DEF Work, Pcs, Answers, Finished
  <2>5. CASE Accept(t)
    BY <2>5 DEF Accept, Pcs, Results
  <2>6. CASE SetResult(t)
    <3>1. answer[t] \in Results
      BY <2>1, <2>6 DEF Place, SetResult, Results
    <3> QED BY <2>6, <3>1 DEF SetResult, Pcs
  <2>7. CASE WriteLine(t)
    <3>1. Record(op[t], result[t]) \in Pieces /\ Newline \in Pieces
      BY <2>1, <2>7 DEF Place, Running, WriteLine, Record, Pieces
    <3>2. /\ file' \in Seq(Pieces) /\ synced' \in 0 .. Len(file')
      BY <2>7, <3>1 DEF WriteLine
    <3>3. copy' \in [Tasks -> Copies]
      BY <2>7, BehindType DEF WriteLine
    <3>4. damaged' \in BOOLEAN
      BY <2>7 DEF WriteLine
    <3>5. pc' \in [Tasks -> Pcs]
      BY <2>7 DEF WriteLine, Pcs
    <3> QED BY <2>7, <3>2, <3>3, <3>4, <3>5 DEF WriteLine
  <2>8. CASE Sync(t)
    BY <2>8, AfterAppendType DEF Sync, Pcs
  <2>9. CASE Copy(t)
    BY <2>9 DEF Copy, Pcs
  <2>10. CASE Rename(t)
    <3>1. file' \in Seq(Pieces) /\ synced' = Len(file')
      BY <2>10, LinesLoad DEF Rename
    <3>2. copy' \in [Tasks -> Copies]
      BY <2>10, BehindType DEF Rename, NoCopy, Results
    <3>3. damaged' \in BOOLEAN /\ stale' \in BOOLEAN /\ pc' \in [Tasks -> Pcs]
      BY <2>10 DEF Rename, Pcs
    <3> QED BY <2>10, <3>1, <3>2, <3>3 DEF Rename
  <2>11. CASE Reopen(t)
    BY <2>11, AfterAppendType DEF Reopen, Pcs
  <2>12. CASE Report(t)
    BY <2>12, OverType DEF Report
  <2> QED BY <1>1, <2>2, <2>3, <2>4, <2>5, <2>6, <2>7, <2>8, <2>9, <2>10, <2>11, <2>12
          DEF Step
<1>2. ASSUME NEW t \in Tasks, NEW o \in Ops, Deliver(t, o) PROVE TypeOK'
  BY <1>2 DEF Deliver, Pcs, Answers, Finished
<1>3. CASE Crash
  <2>1. PICK f \in {SubSeq(file, 1, n) : n \in synced .. Len(file)}
                \cup {Append(SubSeq(file, 1, n), Torn) : n \in synced .. Len(file) - 1} :
          file' = f /\ synced' = Len(f)
    BY <1>3 DEF Crash
  <2>2. Torn \in Pieces
    BY DEF Pieces
  <2>3. \A n \in 0 .. Len(file) : SubSeq(file, 1, n) \in Seq(Pieces)
    OBVIOUS
  <2>4. \A n \in 0 .. Len(file) : Append(SubSeq(file, 1, n), Torn) \in Seq(Pieces)
    BY <2>2, <2>3
  <2>5. /\ synced .. Len(file) \subseteq 0 .. Len(file)
        /\ synced .. Len(file) - 1 \subseteq 0 .. Len(file)
    OBVIOUS
  <2>6. f \in Seq(Pieces)
    <3>1. CASE \E n \in synced .. Len(file) : f = SubSeq(file, 1, n)
      BY <2>3, <2>5, <3>1
    <3>2. CASE \E n \in synced .. Len(file) - 1 : f = Append(SubSeq(file, 1, n), Torn)
      BY <2>4, <2>5, <3>2
    <3> QED BY <2>1, <3>1, <3>2
  <2>7. synced' \in 0 .. Len(file')
    BY <2>1, <2>6
  <2>8. {t \in Tasks : Running(t)} \in SUBSET Tasks
    OBVIOUS
  <2>9. /\ pc' \in [Tasks -> Pcs] /\ op' \in [Tasks -> Ops \cup {NoOp}]
        /\ result' \in [Tasks -> Results] /\ answer' \in [Tasks -> Answers]
        /\ copy' \in [Tasks -> Copies]
    BY <1>3, <2>8, OverType DEF Crash
  <2> QED BY <1>3, <2>1, <2>6, <2>7, <2>9 DEF Crash
<1>4. CASE Open
  <2>1. boots < MaxBoots
    BY <1>4 DEF Open, DownInv
  <2>2. Kept(file) \in 0 .. Len(file) /\ Load(file) \in [Ops -> Results \cup {"absent"}]
    BY KeptIsLongest, LoadType
  <2>3. file' \in Seq(Pieces) /\ synced' = Len(file') /\ damaged' \in BOOLEAN
    <3>1. \A n \in 0 .. Kept(file) : SubSeq(file, 1, n) \in Seq(Pieces)
      BY <2>2
    <3>2. Kept(file) \in 0 .. Kept(file)
      BY <2>2
    <3>3. PICK n \in 0 .. Kept(file) : file' = SubSeq(file, 1, n)
      BY <1>4, <3>2 DEF Open
    <3> QED BY <1>4, <3>1, <3>3 DEF Open
  <2>4. synced' \in 0 .. Len(file')
    BY <2>3
  <2>5. /\ index' \in [Ops -> Results \cup {"absent"}] /\ since' \in 0 .. Threshold - 1
        /\ boots' \in 1 .. MaxBoots /\ alive' \in BOOLEAN
    <3>1. since' \in 0 .. Threshold - 1
      BY <1>4 DEF Open
    <3>2. boots' \in 1 .. MaxBoots
      <4>1. boots' = boots + 1
        BY <1>4 DEF Open
      <4> QED BY <2>1, <4>1
    <3>3. alive' \in BOOLEAN
      BY <1>4 DEF Open
    <3>4. index' \in [Ops -> Results \cup {"absent"}]
      BY <1>4, <2>2 DEF Open
    <3> QED BY <3>1, <3>2, <3>3, <3>4
  <2>6. UNCHANGED <<late, stale, pc, op, result, answer, copy, runs, overlapped>>
    BY <1>4 DEF Open
  <2> QED BY <2>3, <2>4, <2>5, <2>6
<1>5. CASE UNCHANGED vars
  BY <1>5 DEF vars
<1> QED BY <1>1, <1>2, <1>3, <1>4, <1>5 DEF Next

\* A delivery that arrives is the only task it touches, and notes whether its
\* operation has another.
LEMMA DeliverDoes ==
    ASSUME TypeOK, NEW t \in Tasks, NEW o \in Ops, Deliver(t, o)
    PROVE  /\ alive /\ pc[t] = "idle" /\ op'[t] = o /\ pc'[t] \in {"insert", "replay"}
           /\ pc'[t] = "insert" => answer'[t] \in Finished
           /\ pc'[t] = "replay" => answer'[t] = answer[t]
           /\ \A u \in Tasks : u # t => /\ pc'[u] = pc[u] /\ op'[u] = op[u]
                                        /\ answer'[u] = answer[u]
           /\ overlapped \subseteq overlapped'
           /\ \A u \in Tasks : Running(u) /\ op[u] = o => o \in overlapped'
           /\ UNCHANGED <<disk, memory, process, result, copy, runs, damaged>>
BY DEF Deliver, TypeOK, Finished

\* A crash ends the tasks and leaves a part of the file.
LEMMA CrashDoes ==
    ASSUME TypeOK, Crash
    PROVE  /\ alive /\ ~alive' /\ boots < MaxBoots /\ boots' = boots
           /\ \A t \in Tasks : pc'[t] \in {"idle", "done"} /\ ~Running(t)'
           /\ \A t \in Tasks : pc'[t] = "idle" => pc[t] = "idle" /\ answer'[t] = answer[t]
           /\ file' \in Remains(file, synced) /\ synced' = Len(file')
           /\ UNCHANGED <<memory, history>>
BY DEF Crash, Over, Running, Remains, TypeOK

\* Only an arriving delivery joins another of its operation, and notes it.
LEMMA UniqueStep ==
    ASSUME TypeOK, UniqueInv, [Next]_vars
    PROVE  UniqueInv'
<1> SUFFICES ASSUME NEW t \in Tasks, NEW u \in Tasks, t # u, Running(t)', Running(u)',
                    op'[t] = op'[u]
             PROVE  op'[t] \in overlapped'
  BY DEF UniqueInv
<1>1. ASSUME NEW v \in Tasks, Step(v) PROVE op'[t] \in overlapped'
  BY <1>1, StepIsOwn DEF Own, UniqueInv, Running
<1>2. ASSUME NEW v \in Tasks, NEW o \in Ops, Deliver(v, o) PROVE op'[t] \in overlapped'
  <2>1. \A w \in Tasks : w # v => pc'[w] = pc[w] /\ op'[w] = op[w]
    BY <1>2, DeliverDoes
  <2>2. /\ op'[v] = o /\ overlapped \subseteq overlapped'
        /\ \A w \in Tasks : Running(w) /\ op[w] = o => o \in overlapped'
    BY <1>2, DeliverDoes
  <2> QED BY <2>1, <2>2 DEF UniqueInv, Running
<1>3. CASE Crash
  BY <1>3, CrashDoes
<1>4. CASE Open
  BY <1>4 DEF Open, tasks, UniqueInv, Running
<1>5. CASE UNCHANGED vars
  BY <1>5 DEF vars, tasks, history, UniqueInv, Running
<1> QED BY <1>1, <1>2, <1>3, <1>4, <1>5 DEF Next

\* A line is written only when nobody is about to sync one.
LEMMA LockStep ==
    ASSUME TypeOK, LockInv, [Next]_vars
    PROVE  LockInv'
<1> SUFFICES ASSUME NEW t \in Tasks, NEW u \in Tasks, pc'[t] = "sync", pc'[u] = "sync"
             PROVE  t = u
  BY DEF LockInv
<1>1. ASSUME NEW v \in Tasks, Step(v) PROVE t = u
  BY <1>1, StepIsOwn DEF Own, LockInv, LockFree
<1>2. ASSUME NEW v \in Tasks, NEW o \in Ops, Deliver(v, o) PROVE t = u
  BY <1>2, DeliverDoes DEF LockInv
<1>3. CASE Crash
  BY <1>3, CrashDoes
<1>4. CASE Open
  BY <1>4 DEF Open, tasks, LockInv
<1>5. CASE UNCHANGED vars
  BY <1>5 DEF vars, tasks, LockInv
<1> QED BY <1>1, <1>2, <1>3, <1>4, <1>5 DEF Next

\* A crash counts the file that is left as synced and leaves no task.
LEMMA DownStep ==
    ASSUME TypeOK, DownInv, [Next]_vars
    PROVE  DownInv'
<1>1. ASSUME NEW t \in Tasks, Step(t) PROVE DownInv'
  BY <1>1, StepIsOwn DEF Own, DownInv, process
<1>2. ASSUME NEW t \in Tasks, NEW o \in Ops, Deliver(t, o) PROVE DownInv'
  BY <1>2, DeliverDoes DEF DownInv, process
<1>3. CASE Crash
  BY <1>3, CrashDoes DEF DownInv
<1>4. CASE Open
  BY <1>4 DEF Open, DownInv, tasks, Running
<1>5. CASE UNCHANGED vars
  BY <1>5 DEF vars, disk, process, tasks, DownInv, Running
<1> QED BY <1>1, <1>2, <1>3, <1>4, <1>5 DEF Next

\* What a task has established of its record holds while others take their steps.
LEMMA OtherPlace ==
    ASSUME TypeOK, UniqueInv, PlaceInv, NEW t \in Tasks, Own(t), NEW u \in Tasks, u # t
    PROVE  Place(u)'
<1>1. Place(u) /\ Running(t)
  BY DEF PlaceInv, Own
<1>2. pc'[u] = pc[u] /\ op'[u] = op[u] /\ result'[u] = result[u] /\ answer'[u] = answer[u]
      /\ overlapped' = overlapped
  BY DEF Own
<1>3. CASE ~Running(u)
  BY <1>1, <1>2, <1>3 DEF Place, Running
<1>4. CASE Running(u)
  <2>1. op[u] \in Ops
    BY <1>1, <1>4 DEF Place
  <2>2. op[u] \notin overlapped => index'[op[u]] = index[op[u]]
    BY <1>1, <1>4, <2>1 DEF Own, UniqueInv
  <2>3. Running(u)'
    BY <1>2, <1>4 DEF Running
  <2> QED BY <1>1, <1>2, <2>1, <2>2, <2>3 DEF Place
<1> QED BY <1>3, <1>4

\* Each step of a task establishes what its next place says.
LEMMA PlaceStep ==
    ASSUME TypeOK, UniqueInv, PlaceInv, DownInv, [Next]_vars
    PROVE  PlaceInv'
<1>1. ASSUME NEW t \in Tasks, Step(t) PROVE PlaceInv'
  <2>1. Own(t) /\ Place(t) /\ op[t] \in Ops
    BY <1>1, StepIsOwn DEF PlaceInv, Own, Place
  <2>2. \A u \in Tasks : u # t => Place(u)'
    BY <2>1, OtherPlace
  <2> SUFFICES Place(t)'
    BY <2>2 DEF PlaceInv
  <2> USE <2>1 DEF Place, Running, Finished, disk, memory, process, history
  <2>3. CASE Replay(t)
    BY <2>3 DEF Replay, TypeOK
  <2>4. CASE RefuseInFlight(t)
    BY <2>4 DEF RefuseInFlight, TypeOK
  <2>5. CASE Work(t)
    BY <2>5 DEF Work, TypeOK
  <2>6. CASE Accept(t)
    BY <2>6 DEF Accept, TypeOK
  <2>7. CASE SetResult(t)
    BY <2>7 DEF SetResult, TypeOK
  <2>8. CASE WriteLine(t)
    BY <2>8 DEF WriteLine, TypeOK
  <2>9. CASE Sync(t)
    BY <2>9 DEF Sync, AfterAppend, TypeOK, Answers
  <2>10. CASE Copy(t)
    BY <2>10 DEF Copy, TypeOK
  <2>11. CASE Rename(t)
    BY <2>11 DEF Rename, TypeOK
  <2>12. CASE Reopen(t)
    BY <2>12 DEF Reopen, AfterAppend, TypeOK, Answers
  <2>13. CASE Report(t)
    BY <2>13 DEF Report, Over, TypeOK
  <2> QED BY <1>1, <2>3, <2>4, <2>5, <2>6, <2>7, <2>8, <2>9, <2>10, <2>11, <2>12, <2>13
          DEF Step
<1>2. ASSUME NEW t \in Tasks, NEW o \in Ops, Deliver(t, o) PROVE PlaceInv'
  <2>1. ASSUME NEW u \in Tasks, u # t PROVE Place(u)'
    BY <1>2, <2>1, DeliverDoes DEF PlaceInv, Place, Running, memory
  <2>2. Place(t)'
    <3>1. /\ op'[t] = o /\ pc'[t] \in {"insert", "replay"}
          /\ pc'[t] = "insert" => answer'[t] \in Finished
          /\ pc'[t] = "replay" => answer'[t] = answer[t]
      BY <1>2, DeliverDoes
    <3>2. pc[t] = "idle" /\ Place(t)
      BY <1>2, DeliverDoes DEF PlaceInv
    <3> QED BY <3>1, <3>2 DEF Place, Running, Finished
  <2> QED BY <2>1, <2>2 DEF PlaceInv
<1>3. CASE Crash
  BY <1>3, CrashDoes DEF PlaceInv, Place
<1>4. CASE Open
  BY <1>4 DEF Open, tasks, DownInv, PlaceInv, Place, Running
<1>5. CASE UNCHANGED vars
  BY <1>5 DEF vars, memory, tasks, history, PlaceInv, Place, Running
<1> QED BY <1>1, <1>2, <1>3, <1>4, <1>5 DEF Next

-----------------------------------------------------------------------------
(* The file, memory and the copies. *)

\* A line that is written where it is found again goes behind whole lines that
\* are all synced.
LEMMA WriteDoes ==
    ASSUME TypeOK, PlaceInv, FileInv, alive, NEW t \in Tasks, WriteLine(t), ~damaged'
    PROVE  /\ ~damaged /\ synced = Len(file) /\ synced' = synced
           /\ op[t] \in Ops /\ result[t] \in Results
           /\ Whole(file') /\ Len(file') = Len(file) + 2 /\ Len(file') % 2 = 0
           /\ file'[synced + 1] = Record(op[t], result[t])
           /\ Synced' = file /\ Synced = file
           /\ Load(file') = [Load(file) EXCEPT ![op[t]] = result[t]]
<1>1. /\ ~damaged /\ ~stale /\ (file = <<>> \/ Last(file) = Newline) /\ synced' = synced
      /\ file' = file \o <<Record(op[t], result[t]), Newline>>
      /\ pc[t] = "line" /\ \A u \in Tasks : pc[u] # "sync"
  BY DEF WriteLine, LockFree
<1>2. file \in Seq(Pieces) /\ Whole(file) /\ synced = Len(file) /\ Len(file) \in Nat
  BY <1>1 DEF FileInv, TypeOK
<1>3. op[t] \in Ops /\ result[t] \in Results
  BY <1>1 DEF PlaceInv, Place, Running, TypeOK
<1>4. Len(file) % 2 = 0
  <2>1. CASE file = <<>>
    BY <2>1
  <2>2. CASE file # <<>>
    <3>1. Len(file) \in 1 .. Len(file) /\ file[Len(file)] = Newline
      BY <1>1, <1>2, <2>2 DEF Last
    <3>2. Newline \notin Ops \X Results
      <4>1. \A p \in Ops \X Results : Len(p) = 2
        OBVIOUS
      <4>2. Len(Newline) = 0
        BY DEF Newline
      <4> QED BY <4>1, <4>2
    <3> QED BY <1>2, <3>1, <3>2 DEF Whole
  <2> QED BY <2>1, <2>2
<1>5. /\ Whole(file') /\ Len(file') = Len(file) + 2 /\ Len(file') % 2 = 0
      /\ file'[Len(file) + 1] = Record(op[t], result[t]) /\ SubSeq(file', 1, Len(file)) = file
      /\ Load(file') = [Load(file) EXCEPT ![op[t]] = result[t]]
  BY <1>1, <1>2, <1>3, <1>4, LoadAppend
<1>6. SubSeq(file, 1, Len(file)) = file
  BY <1>2
<1> QED BY <1>1, <1>2, <1>3, <1>5, <1>6 DEF Synced

\* A compaction's file loads as the index that was copied.
LEMMA RenameDoes ==
    ASSUME TypeOK, NEW t \in Tasks, Rename(t)
    PROVE  /\ file' \in Seq(Pieces) /\ Whole(file') /\ synced' = Len(file') /\ Synced' = file'
           /\ Load(file') = copy[t].records /\ pc[t] = "rename"
           /\ ~damaged' => ~damaged /\ ~copy[t].behind
<1>1. copy[t].records \in [Ops -> Results \cup {"absent"}]
  BY DEF TypeOK
<1>2. /\ file' \in Seq(Pieces) /\ Whole(file') /\ synced' = Len(file')
      /\ Load(file') = copy[t].records
  BY <1>1, LinesLoad DEF Rename
<1>3. SubSeq(file', 1, Len(file')) = file'
  BY <1>2
<1> QED BY <1>2, <1>3 DEF Rename, Synced

\* The start that succeeds has the kept lines in the file and in memory.
LEMMA OpenDoes ==
    ASSUME TypeOK, DownInv, Open, ~damaged'
    PROVE  /\ ~alive /\ ~damaged /\ Synced = file
           /\ file' \in Seq(Pieces) /\ Whole(file') /\ synced' = Len(file') /\ Synced' = file'
           /\ Load(file') = Load(file) /\ (alive' => index' = Load(file))
           /\ UNCHANGED <<tasks, runs, overlapped>>
<1>1. file' = SubSeq(file, 1, Kept(file)) /\ ~damaged
  <2>1. CASE file' = SubSeq(file, 1, Kept(file)) /\ damaged' = damaged
    BY <2>1
  <2>2. CASE damaged' = (damaged \/ file' # SubSeq(file, 1, Kept(file)))
    BY <2>2, Zenon
  <2> QED BY <2>1, <2>2 DEF Open
<1>2. file' \in Seq(Pieces) /\ Whole(file') /\ Load(file') = Load(file)
  BY <1>1, LoadKept DEF TypeOK
<1>3. synced' = Len(file') /\ ~alive /\ UNCHANGED <<tasks, runs, overlapped>>
      /\ (alive' => index' = Load(file))
  BY DEF Open
<1>4. SubSeq(file', 1, Len(file')) = file'
  BY <1>2
<1>5. Synced = file
  <2>1. synced = Len(file) /\ file \in Seq(Pieces)
    BY <1>3 DEF DownInv, TypeOK
  <2> QED BY <2>1 DEF Synced
<1> QED BY <1>1, <1>2, <1>3, <1>4, <1>5 DEF Synced

\* The steps of a task that leave the file alone.
Aside(t) ==
    \/ Replay(t) \/ RefuseInFlight(t) \/ Work(t) \/ Accept(t) \/ SetResult(t)
    \/ Copy(t) \/ Reopen(t) \/ Report(t)

\* They leave what is synced, too.
LEMMA AsideDoes ==
    ASSUME NEW t \in Tasks, Aside(t)
    PROVE  /\ UNCHANGED <<file, synced, damaged>> /\ pc[t] \notin {"line", "sync"}
           /\ index' = index \/ Accept(t) \/ SetResult(t)
           /\ Synced' = Synced
<1>1. UNCHANGED <<file, synced, damaged>> /\ pc[t] \notin {"line", "sync"}
  BY DEF Aside, Replay, RefuseInFlight, Work, Accept, SetResult, Copy, Reopen, Report,
         disk, history
<1>2. index' = index \/ Accept(t) \/ SetResult(t)
  BY DEF Aside, Replay, RefuseInFlight, Work, Accept, SetResult, Copy, Reopen, Report,
         memory
<1> QED BY <1>1, <1>2 DEF Synced

\* Lines are written one behind the other, and synced before the next.
LEMMA FileStep ==
    ASSUME TypeOK, PlaceInv, DownInv, FileInv, [Next]_vars
    PROVE  FileInv'
<1> SUFFICES ASSUME alive', ~damaged' PROVE FileInv'
  BY DEF FileInv
<1>1. ASSUME NEW t \in Tasks, Step(t) PROVE FileInv'
  <2>1. Own(t) /\ alive
    BY <1>1, StepIsOwn DEF Own, process
  <2>2. CASE Aside(t)
    <3>1. UNCHANGED <<file, synced, damaged>> /\ pc[t] # "sync"
      BY <2>2, AsideDoes
    <3>2. \A u \in Tasks : pc[u] = "sync" =>
             pc'[u] = "sync" /\ op'[u] = op[u] /\ result'[u] = result[u]
      BY <2>1, <3>1 DEF Own
    <3> QED BY <2>1, <3>1, <3>2 DEF FileInv, Whole
  <2>3. CASE WriteLine(t)
    <3>1. /\ Whole(file') /\ Len(file') = synced' + 2 /\ Len(file') % 2 = 0
          /\ file'[synced' + 1] = Record(op[t], result[t]) /\ synced \in Nat /\ synced' = synced
      BY <2>1, <2>3, WriteDoes DEF TypeOK
    <3>2. pc'[t] = "sync" /\ op'[t] = op[t] /\ result'[t] = result[t]
      BY <2>3 DEF WriteLine, TypeOK
    <3>3. synced' = Len(file') - 2
      BY <3>1
    <3> QED BY <3>1, <3>2, <3>3 DEF FileInv
  <2>4. CASE Sync(t)
    BY <2>1, <2>4 DEF Sync, FileInv, Whole, history
  <2>5. CASE Rename(t)
    BY <2>5, RenameDoes DEF FileInv
  <2> QED BY <1>1, <2>2, <2>3, <2>4, <2>5 DEF Step, Aside
<1>2. ASSUME NEW t \in Tasks, NEW o \in Ops, Deliver(t, o) PROVE FileInv'
  <2>1. /\ pc[t] = "idle" /\ UNCHANGED <<file, synced, damaged, result>> /\ alive
        /\ \A u \in Tasks : u # t => pc'[u] = pc[u] /\ op'[u] = op[u]
    BY <1>2, DeliverDoes DEF disk
  <2> QED BY <2>1 DEF FileInv, Whole
<1>3. CASE Crash
  BY <1>3, CrashDoes
<1>4. CASE Open
  BY <1>4, OpenDoes DEF FileInv
<1>5. CASE UNCHANGED vars
  BY <1>5 DEF vars, disk, tasks, process, history, FileInv, Whole
<1> QED BY <1>1, <1>2, <1>3, <1>4, <1>5 DEF Next

\* A record in memory is followed by its line, and a compaction that loses none
\* replaces the file by what memory had.
LEMMA MemStep ==
    ASSUME TypeOK, PlaceInv, DownInv, FileInv, MemInv, CopyInv, [Next]_vars
    PROVE  MemInv'
<1> SUFFICES ASSUME alive', NEW o \in Ops, Sound(o)', Written(o)'
             PROVE  Load(file')[o] = index'[o]
  BY DEF MemInv
<1>1. ASSUME NEW t \in Tasks, Step(t) PROVE Load(file')[o] = index'[o]
  <2>1. Own(t) /\ alive /\ o \notin overlapped /\ ~damaged'
    BY <1>1, StepIsOwn DEF Own, process, Sound
  <2>2. \A u \in Tasks : u # t /\ pc[u] = "line" => op[u] # o
    BY <2>1 DEF Own, Written
  <2>3. CASE Aside(t)
    <3>1. UNCHANGED <<file, damaged>> /\ pc[t] # "line"
          /\ (index' = index \/ Accept(t) \/ SetResult(t))
      BY <2>3, AsideDoes
    <3>2. Load(file)[o] = index[o]
      BY <2>1, <2>2, <3>1 DEF MemInv, Sound, Written
    <3>3. ASSUME Accept(t) \/ SetResult(t) PROVE index'[o] = index[o]
      <4>1. pc'[t] = "line" /\ op'[t] = op[t]
        BY <3>3 DEF Accept, SetResult, TypeOK
      <4> QED BY <2>1, <4>1 DEF Written, Own
    <3> QED BY <3>1, <3>2, <3>3
  <2>4. CASE WriteLine(t)
    <3>1. /\ ~damaged /\ op[t] \in Ops
          /\ Load(file') = [Load(file) EXCEPT ![op[t]] = result[t]]
      BY <2>1, <2>4, WriteDoes
    <3>2. Load(file) \in [Ops -> Results \cup {"absent"}]
      BY LoadType DEF TypeOK
    <3>3. index' = index /\ pc[t] = "line"
      BY <2>4 DEF WriteLine, memory
    <3>4. CASE op[t] = o
      <4>1. index[o] = result[t]
        BY <2>1, <3>3, <3>4 DEF PlaceInv, Place
      <4> QED BY <3>1, <3>2, <3>3, <3>4, <4>1
    <3>5. CASE op[t] # o
      <4>1. Load(file)[o] = index[o]
        BY <2>1, <2>2, <3>1, <3>5 DEF MemInv, Sound, Written
      <4> QED BY <3>1, <3>2, <3>3, <3>5, <4>1
    <3> QED BY <3>4, <3>5
  <2>5. CASE Sync(t)
    <3>1. file' = file /\ index' = index /\ damaged' = damaged /\ pc[t] = "sync"
      BY <2>5 DEF Sync, history
    <3> QED BY <2>1, <2>2, <3>1 DEF MemInv, Sound, Written
  <2>6. CASE Rename(t)
    <3>1. Load(file') = copy[t].records /\ pc[t] = "rename" /\ ~damaged /\ ~copy[t].behind
      BY <2>1, <2>6, RenameDoes
    <3>2. index' = index
      BY <2>6 DEF Rename, memory
    <3>3. Written(o) /\ Sound(o)
      BY <2>1, <2>2, <3>1 DEF Written, Sound
    <3>4. copy[t].records[o] = Load(file)[o] /\ Load(file)[o] = index[o]
      BY <2>1, <3>1, <3>3 DEF CopyInv, MemInv
    <3> QED BY <3>1, <3>2, <3>4
  <2> QED BY <1>1, <2>3, <2>4, <2>5, <2>6 DEF Step, Aside
<1>2. ASSUME NEW t \in Tasks, NEW p \in Ops, Deliver(t, p) PROVE Load(file')[o] = index'[o]
  <2>1. /\ pc[t] = "idle" /\ UNCHANGED <<file, damaged, index>> /\ alive
        /\ overlapped \subseteq overlapped'
        /\ \A u \in Tasks : u # t => pc'[u] = pc[u] /\ op'[u] = op[u]
    BY <1>2, DeliverDoes DEF disk, memory
  <2>2. Sound(o) /\ Written(o)
    BY <2>1 DEF Sound, Written
  <2> QED BY <2>1, <2>2 DEF MemInv
<1>3. CASE Crash
  BY <1>3, CrashDoes
<1>4. CASE Open
  BY <1>4, OpenDoes DEF Sound
<1>5. CASE UNCHANGED vars
  BY <1>5 DEF vars, disk, memory, tasks, process, history, MemInv, Sound, Written
<1> QED BY <1>1, <1>2, <1>3, <1>4, <1>5 DEF Next

\* A copy goes out of date only by a write, which marks it.
LEMMA CopyStep ==
    ASSUME TypeOK, PlaceInv, DownInv, MemInv, CopyInv, [Next]_vars
    PROVE  CopyInv'
<1> SUFFICES ASSUME NEW u \in Tasks, pc'[u] = "rename", ~copy'[u].behind,
                    NEW o \in Ops, Sound(o)'
             PROVE  \/ copy'[u].records[o] = Load(file')[o]
                    \/ copy'[u].records[o] # "absent" /\ ~Written(o)'
  BY DEF CopyInv
<1> DEFINE Goal == \/ copy'[u].records[o] = Load(file')[o]
                   \/ copy'[u].records[o] # "absent" /\ ~Written(o)'
<1>1. ASSUME NEW t \in Tasks, Step(t) PROVE Goal
  <2>1. Own(t) /\ o \notin overlapped /\ ~damaged'
    BY <1>1, StepIsOwn DEF Own, Sound
  <2>2. CASE t = u
    <3>1. /\ Copy(t) /\ copy'[u].records = index /\ UNCHANGED <<file, damaged>>
          /\ op' = op
      BY <1>1, <2>2 DEF Step, Replay, RefuseInFlight, Work, Accept, SetResult, WriteLine, Sync,
         AfterAppend, Copy, Rename, Reopen, Report, Over, TypeOK, disk, history
    <3>2. alive
      BY <2>1 DEF Own, DownInv
    <3>3. CASE Written(o)
      BY <2>1, <3>1, <3>2, <3>3 DEF MemInv, Sound
    <3>4. CASE ~Written(o)
      <4>1. PICK w \in Tasks : pc[w] = "line" /\ op[w] = o
        BY <3>4 DEF Written
      <4>2. index[o] = result[w] /\ result[w] \in Results
        BY <2>1, <4>1 DEF PlaceInv, Place, TypeOK
      <4>3. index[o] # "absent"
        BY <4>2 DEF Results, Finished
      <4>4. w # t
        BY <3>1, <4>1 DEF Copy
      <4>5. pc'[w] = "line" /\ op'[w] = o
        BY <2>1, <4>1, <4>4 DEF Own
      <4> QED BY <3>1, <4>3, <4>5 DEF Written
    <3> QED BY <3>3, <3>4
  <2>3. CASE t # u
    <3>1. pc[u] = "rename"
      BY <2>1, <2>3 DEF Own
    <3>2. ~WriteLine(t) /\ ~Rename(t)
      <4>1. Behind[u].behind
        BY <3>1 DEF Behind, TypeOK
      <4>2. WriteLine(t) => copy' = Behind
        BY DEF WriteLine
      <4>3. Rename(t) => copy' = [Behind EXCEPT ![t] = NoCopy]
        BY DEF Rename
      <4>4. Behind \in [Tasks -> Copies]
        BY BehindType DEF Copies
      <4> QED BY <2>3, <4>1, <4>2, <4>3, <4>4
    <3>3. Aside(t) \/ Sync(t)
      BY <1>1, <3>2 DEF Step, Aside
    <3>4. UNCHANGED <<file, damaged>> /\ pc[t] # "line"
      BY <3>3, AsideDoes DEF Sync, history
    <3>5. copy'[u] = copy[u]
      BY <2>3, <3>3 DEF Aside, Replay, RefuseInFlight, Work, Accept, SetResult, Sync, Copy,
         Reopen, Report, Over, TypeOK
    <3>6. \/ copy[u].records[o] = Load(file)[o]
          \/ copy[u].records[o] # "absent" /\ ~Written(o)
      BY <2>1, <3>1, <3>4, <3>5 DEF CopyInv, Sound
    <3>7. ~Written(o) => ~Written(o)'
      BY <2>1, <3>4 DEF Written, Own
    <3> QED BY <3>4, <3>5, <3>6, <3>7
  <2> QED BY <2>2, <2>3
<1>2. ASSUME NEW t \in Tasks, NEW p \in Ops, Deliver(t, p) PROVE Goal
  <2>1. /\ pc[t] = "idle" /\ UNCHANGED <<file, damaged, copy>> /\ pc'[t] # "rename"
        /\ overlapped \subseteq overlapped'
        /\ \A w \in Tasks : w # t => pc'[w] = pc[w] /\ op'[w] = op[w]
    BY <1>2, DeliverDoes DEF disk
  <2>2. pc[u] = "rename" /\ Sound(o) /\ (~Written(o) => ~Written(o)')
    BY <2>1 DEF Sound, Written
  <2> QED BY <2>1, <2>2 DEF CopyInv
<1>3. CASE Crash
  BY <1>3, CrashDoes
<1>4. CASE Open
  BY <1>4 DEF Open, DownInv, tasks, Running
<1>5. CASE UNCHANGED vars
  BY <1>5 DEF vars, disk, tasks, history, CopyInv, Sound, Written
<1> QED BY <1>1, <1>2, <1>3, <1>4, <1>5 DEF Next

-----------------------------------------------------------------------------
(* The work. *)

\* A task that has its operation to itself, and no line of it to write or to
\* sync, finds in the synced file what memory has.
LEMMA Settled ==
    ASSUME TypeOK, UniqueInv, DownInv, PlaceInv, FileInv, MemInv, NEW t \in Tasks, Running(t),
           pc[t] \notin {"line", "sync"}, op[t] \notin overlapped, ~damaged
    PROVE  /\ alive /\ op[t] \in Ops /\ Load(file)[op[t]] = index[op[t]]
           /\ Load(Synced)[op[t]] = index[op[t]]
<1>1. alive /\ op[t] \in Ops
  BY DEF DownInv, PlaceInv, Place
<1>2. Written(op[t]) /\ Quiet(op[t])
  BY DEF Written, Quiet, UniqueInv, Running
<1>3. Load(file)[op[t]] = index[op[t]]
  BY <1>1, <1>2 DEF MemInv, Sound
<1> QED BY <1>1, <1>2, <1>3, SyncedLoad

\* Work runs for the first time, after its acceptance is synced.
LEMMA WorkStep ==
    ASSUME TypeOK, UniqueInv, DownInv, PlaceInv, FileInv, MemInv, RunInv,
           NEW t \in Tasks, Work(t)
    PROVE  RunInv'
<1> SUFFICES ASSUME ~damaged' PROVE RunInv'
  BY DEF RunInv
<1>1. /\ pc[t] = "work" /\ Running(t) /\ op' = op /\ pc'[t] \in {"result", "report"}
      /\ UNCHANGED <<overlapped, damaged, file, synced>> /\ Own(t)
      /\ runs' = [runs EXCEPT ![op[t]] = @ + 1]
  BY StepIsOwn DEF Work, Step, Running, disk, TypeOK
<1>2. /\ op[t] \in Ops /\ answer[t] = "unanswered"
      /\ op[t] \notin overlapped => index[op[t]] = "none"
  BY <1>1 DEF PlaceInv, Place
<1>3. Synced' = Synced
  BY <1>1 DEF Synced
<1>4. ASSUME NEW o \in Ops, o \notin overlapped, runs'[o] > 0
      PROVE  runs'[o] = 1 /\ Load(Synced)[o] # "absent"
  <2>1. CASE o = op[t]
    <3>1. runs[o] = 0
      BY <1>1, <1>2, <1>4, <2>1 DEF RunInv, ToWork
    <3>2. Load(Synced)[o] = "none"
      BY <1>1, <1>2, <1>4, <2>1, Settled
    <3> QED BY <1>1, <1>2, <2>1, <3>1, <3>2 DEF TypeOK
  <2>2. CASE o # op[t]
    BY <1>1, <1>4, <2>2 DEF RunInv, Own
  <2> QED BY <2>1, <2>2
<1>5. ASSUME NEW u \in Tasks, ToWork(u)', op[u] \notin overlapped PROVE runs'[op[u]] = 0
  <2>1. u # t
    BY <1>1, <1>5 DEF ToWork
  <2>2. pc'[u] = pc[u] /\ answer'[u] = answer[u]
    BY <1>1, <2>1 DEF Own
  <2>3. ToWork(u) /\ Running(u)
    BY <1>5, <2>2 DEF ToWork, Running
  <2>4. op[u] # op[t] /\ op[u] \in Ops
    BY <1>1, <1>5, <2>1, <2>3 DEF UniqueInv, PlaceInv, Place
  <2> QED BY <1>1, <1>5, <2>3, <2>4 DEF RunInv, Own
<1> QED BY <1>1, <1>3, <1>4, <1>5 DEF RunInv

\* A task that comes to have the work to do has found no trace of it.
LEMMA ToWorkIsNew ==
    ASSUME TypeOK, UniqueInv, DownInv, PlaceInv, FileInv, MemInv, RunInv, ~damaged,
           NEW t \in Tasks, Step(t), ToWork(t)', op'[t] \notin overlapped
    PROVE  op'[t] = op[t] /\ runs[op[t]] = 0
<1>1. Own(t) /\ Running(t) /\ Running(t)'
  BY StepIsOwn DEF Own, ToWork, Running
<1>2. op'[t] = op[t] /\ op[t] \in Ops
  BY <1>1 DEF Own, PlaceInv, Place
<1>3. CASE ToWork(t)
  BY <1>2, <1>3 DEF RunInv
<1>4. CASE ~ToWork(t)
  <2>1. RefuseInFlight(t) /\ pc'[t] = "insert" /\ index[op[t]] # "none"
    <3>1. Place(t) /\ t \in Tasks
      BY DEF PlaceInv
    <3>2. CASE RefuseInFlight(t)
      BY <1>4, <3>2 DEF RefuseInFlight, TypeOK, ToWork
    <3>3. CASE Replay(t) \/ Work(t) \/ Accept(t) \/ SetResult(t)
      BY <1>4, <3>1, <3>3 DEF Replay, Work, Accept, SetResult, TypeOK, ToWork, Place, Finished
    <3>4. CASE WriteLine(t) \/ Sync(t) \/ Copy(t)
      BY <1>4, <3>4 DEF WriteLine, Sync, AfterAppend, Copy, TypeOK, ToWork
    <3>5. CASE Rename(t) \/ Reopen(t) \/ Report(t)
      BY <1>4, <3>5 DEF Rename, Reopen, AfterAppend, Report, Over, TypeOK, ToWork
    <3> QED BY <3>2, <3>3, <3>4, <3>5 DEF Step
  <2>2. index[op[t]] = "absent" /\ pc[t] = "inflight"
    BY <1>2, <2>1 DEF RefuseInFlight, PlaceInv, Place, TypeOK, Results
  <2>3. Load(Synced)[op[t]] = "absent"
    BY <1>1, <1>2, <2>2, Settled
  <2>4. ~(runs[op[t]] > 0)
    BY <1>2, <2>3 DEF RunInv
  <2> QED BY <1>2, <2>4 DEF TypeOK
<1> QED BY <1>3, <1>4

\* No step takes back that work ran, and none brings work to do that ran.
LEMMA RunStep ==
    ASSUME TypeOK, UniqueInv, DownInv, PlaceInv, FileInv, MemInv, CopyInv, RunInv, [Next]_vars
    PROVE  RunInv'
<1> SUFFICES ASSUME ~damaged' PROVE RunInv'
  BY DEF RunInv
<1>1. ASSUME NEW t \in Tasks, Step(t), ~Work(t) PROVE RunInv'
  <2>1. Own(t) /\ alive /\ runs' = runs /\ overlapped' = overlapped
    <3>1. Own(t)
      BY <1>1, StepIsOwn
    <3>2. runs' = runs
      BY <1>1 DEF Step, Replay, RefuseInFlight, Accept, SetResult, WriteLine, Sync, Copy,
         Rename, Reopen, Report, history
    <3> QED BY <3>1, <3>2 DEF Own, DownInv
  <2>2. /\ ~damaged
        /\ \A o \in Ops : o \notin overlapped /\ Load(Synced)[o] # "absent"
              => Load(Synced')[o] # "absent"
    <3>1. CASE Aside(t)
      BY <3>1, AsideDoes
    <3>2. CASE WriteLine(t)
      BY <2>1, <3>2, WriteDoes
    <3>3. CASE Sync(t)
      <4>1. file' = file /\ synced' = Len(file) /\ damaged' = damaged
        BY <3>3 DEF Sync, history
      <4>2. Synced' = file
        BY <4>1 DEF Synced, TypeOK
      <4> QED BY <2>1, <4>1, <4>2, SyncedLoad
    <3>4. CASE Rename(t)
      <4>1. /\ Synced' = file' /\ Load(file') = copy[t].records /\ pc[t] = "rename" /\ ~damaged
            /\ ~copy[t].behind
        BY <3>4, RenameDoes
      <4>2. \A o \in Ops : Load(Synced)[o] # "absent" => Load(file)[o] # "absent"
        BY <2>1, <4>1, SyncedLoad
      <4> QED BY <4>1, <4>2 DEF CopyInv, Sound
    <3> QED BY <1>1, <3>1, <3>2, <3>3, <3>4 DEF Step, Aside
  <2>3. ASSUME NEW u \in Tasks, ToWork(u)', op'[u] \notin overlapped PROVE runs[op'[u]] = 0
    <3>1. CASE u = t
      BY <1>1, <2>2, <2>3, <3>1, ToWorkIsNew
    <3>2. CASE u # t
      BY <2>1, <2>2, <2>3, <3>2 DEF Own, RunInv, ToWork
    <3> QED BY <3>1, <3>2
  <2> QED BY <2>1, <2>2, <2>3 DEF RunInv
<1>2. ASSUME NEW t \in Tasks, NEW o \in Ops, Deliver(t, o) PROVE RunInv'
  <2>1. /\ UNCHANGED <<file, synced, damaged, runs>> /\ overlapped \subseteq overlapped'
        /\ \A u \in Tasks : u # t => pc'[u] = pc[u] /\ op'[u] = op[u] /\ answer'[u] = answer[u]
        /\ ~ToWork(t)'
    BY <1>2, DeliverDoes DEF disk, ToWork, Finished
  <2>2. Synced' = Synced
    BY <2>1 DEF Synced
  <2>3. \A u \in Tasks : ToWork(u)' => ToWork(u) /\ op'[u] = op[u]
    BY <2>1 DEF ToWork
  <2> QED BY <2>1, <2>2, <2>3 DEF RunInv
<1>3. CASE Crash
  <2>1. /\ alive /\ file' \in Remains(file, synced) /\ synced' = Len(file')
        /\ UNCHANGED history /\ \A t \in Tasks : pc'[t] \in {"idle", "done"}
    BY <1>3, CrashDoes
  <2>2. /\ Whole(file) /\ file \in Seq(Pieces) /\ synced \in 0 .. Len(file)
        /\ synced = Len(file) \/ (synced = Len(file) - 2 /\ Len(file) % 2 = 0)
    BY <2>1 DEF FileInv, TypeOK, history
  <2>3. Synced' = file'
    <3>1. file' \in Seq(Pieces)
      BY TypeStep DEF TypeOK
    <3> QED BY <2>1, <3>1 DEF Synced
  <2>4. \A o \in Ops : Load(Synced)[o] # "absent" => Load(Synced')[o] # "absent"
    BY <2>1, <2>2, <2>3, CrashKeepsSynced DEF Synced
  <2> QED BY <2>1, <2>4 DEF RunInv, ToWork, history
<1>4. CASE Open
  <2>1. /\ ~damaged /\ Load(Synced') = Load(Synced) /\ UNCHANGED <<tasks, runs, overlapped>>
    BY <1>4, OpenDoes
  <2> QED BY <2>1 DEF RunInv, ToWork, tasks
<1>5. CASE UNCHANGED vars
  BY <1>5 DEF vars, disk, tasks, history, RunInv, ToWork, Synced
<1> QED BY <1>1, <1>2, <1>3, <1>4, <1>5, WorkStep DEF Next

-----------------------------------------------------------------------------
(* The theorems. *)

\* The parts together.
LEMMA IInvStep ==
    ASSUME IInv, [Next]_vars
    PROVE  IInv'
BY TypeStep, UniqueStep, LockStep, DownStep, PlaceStep, FileStep, MemStep, CopyStep, RunStep
   DEF IInv

\* What is known of the journal at every moment: tasks by where they are, the
\* file, memory and the copies of compactions by what they say of each operation.
THEOREM Inductive == Spec => []IInv
<1>1. Init => IInv
  BY InitIInv
<1>2. IInv /\ [Next]_vars => IInv'
  BY IInvStep
<1> QED BY <1>1, <1>2, PTL DEF Spec

\* The variables of the journal and of its tasks stay in their ranges, through
\* torn tails and compacted files.
THEOREM TypeCorrect == Spec => []TypeOK
<1>1. IInv => TypeOK
  BY DEF IInv
<1> QED BY <1>1, Inductive, PTL

\* A command's work runs once however often it is delivered and wherever the
\* agent dies: the acceptance is synced before the work and no compaction, crash
\* or start loses it, save for overlapping deliveries and lost lines.
THEOREM WorkRunsOnce == Spec => []RunsOnce
<1>1. IInv => RunsOnce
  BY DEF IInv, RunInv, RunsOnce, TypeOK
<1> QED BY <1>1, Inductive, PTL

\* A load of the file at any moment finds what memory has of every command whose
\* record is not on its way, compactions included.
THEOREM FileIsMemory == Spec => []FileMatchesIndex
<1>1. IInv => FileMatchesIndex
  BY DEF IInv, MemInv, FileMatchesIndex, Appending, Sound, Written
<1> QED BY <1>1, Inductive, PTL

\* What a task answers as done, timed out or rejected is in the synced part of
\* the file, replayed answers included.
THEOREM AnswersSurvive == Spec => []AnsweredIsDurable
<1>1. ASSUME IInv, NEW t \in Tasks, pc[t] = "report", answer[t] \in Finished,
             op[t] \notin overlapped, ~damaged
      PROVE  Load(Synced)[op[t]] = answer[t]
  <2>1. index[op[t]] = answer[t]
    BY <1>1 DEF IInv, PlaceInv, Place
  <2>2. Running(t) /\ pc[t] \notin {"line", "sync"}
    BY <1>1 DEF Running
  <2> QED BY <1>1, <2>1, <2>2, Settled DEF IInv
<1>2. IInv => AnsweredIsDurable
  BY <1>1 DEF AnsweredIsDurable, Synced
<1> QED BY <1>2, Inductive, PTL
=============================================================================
