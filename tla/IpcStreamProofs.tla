--------------------------- MODULE IpcStreamProofs ---------------------------
(***************************************************************************)
(* Theorems about IpcStream: its types, and that a window in step shows    *)
(* the daemon's tables, for any processes, rows, tables and bounds, and    *)
(* under every fault.                                                      *)
(***************************************************************************)
EXTENDS IpcStream, Integers, FiniteSetTheorems, SequenceTheorems, TLAPS

\* The daemon's table is one of a poll's, once it has announced one.
Announced == IF announced THEN table \in Scan ELSE table = Empty

\* Only a window that listens has events, or has seen any.
HearsNothing == window # "listening" => events = <<>> /\ ~synced

\* The end of a connection is not sent over it.
NoneEnds == \A i \in 1..Len(wire) : wire[i] # Closed

\* Nothing is on the way from a connection that is not there, or not yet, and
\* the window has been told, or will be, of the end of the last one.
CutOff ==
  conn \in {"off", "queued"} =>
    /\ wire = <<>>
    /\ \/ events = <<>> /\ ~synced
       \/ events # <<>> /\ events[Len(events)] = Closed

\* Before the first poll nobody is promised anything.
FirstThingsFirst == Live /\ ~announced => ~Promised(InStep, Way, Len(Way))

\* What a window that shows v is promised of s are tables of polls, and the last
\* of them is t.
Kept(ok, v, s, t) ==
  /\ \A i \in 0..Len(s) : Promised(ok, s, i) => Views(v, s)[i] # Empty
  /\ Promised(ok, s, Len(s)) => Looks(Views(v, s)[Len(s)]) = Looks(t)

PromisesKept == Live => Kept(InStep, view, Way, table)

WayInv == /\ Announced /\ HearsNothing /\ NoneEnds /\ CutOff
          /\ FirstThingsFirst /\ PromisesKept
----------------------------------------------------------------------------
(* Induction.                                                              *)

\* The well-foundedness of finite subsets, for initial segments of Nat.
LEMMA SetInduction ==
  ASSUME NEW T, 0 \in T, \A k \in Nat : k \in T => k + 1 \in T
  PROVE  Nat \subseteq T
<1> DEFINE Ups == {0..k : k \in Nat \ T}
<1> SUFFICES ASSUME Nat \ T # {} PROVE FALSE OBVIOUS
<1>1. Ups # {} /\ Ups \subseteq FiniteSubsetsOf(Nat) BY FS_Interval DEF FiniteSubsetsOf
<1>2. PICK u \in Ups : \A w \in Ups : ~(<<w, u>> \in StrictSubsetOrdering(Nat))
  <2> HIDE DEF Ups
  <2>1. QED BY <1>1, FS_StrictSubsetOrderingWellFounded, WFMin
<1>3. PICK x \in Nat \ T : u = 0..x BY <1>2
<1>4. x # 0 /\ x \in Nat BY <1>3
<1>5. x - 1 \in Nat /\ (x - 1) + 1 = x BY <1>4
<1>6. x - 1 \in Nat \ T BY <1>3, <1>5
<1>7. 0..(x - 1) \in Ups BY <1>6
<1>8. <<0..(x - 1), 0..x>> \in StrictSubsetOrdering(Nat)
  <2>1. 0..(x - 1) \in SUBSET Nat /\ 0..x \in SUBSET Nat BY <1>4, <1>5
  <2>2. x \in 0..x /\ x \notin 0..(x - 1) /\ 0..(x - 1) \subseteq 0..x BY <1>4, <1>5
  <2>3. QED BY <2>1, <2>2 DEF StrictSubsetOrdering
<1>9. QED BY <1>2, <1>3, <1>7, <1>8

\* A nonempty set of naturals has a least element, which Min is.
LEMMA MinIs ==
  ASSUME NEW S, S \subseteq Nat, S # {}
  PROVE  Min(S) \in S /\ \A k \in S : Min(S) =< k
<1> DEFINE Below == {k \in Nat : \A j \in S : k =< j}
<1>1. PICK k \in Below : k \in S
  <2> SUFFICES ASSUME Below \cap S = {} PROVE FALSE OBVIOUS
  <2>1. 0 \in Below OBVIOUS
  <2>2. ASSUME NEW k \in Nat, k \in Below PROVE k + 1 \in Below BY <2>2
  <2>3. Nat \subseteq Below
    <3> HIDE DEF Below
    <3>1. QED BY <2>1, <2>2, SetInduction
  <2>4. PICK j \in S : TRUE OBVIOUS
  <2>5. j \in Below BY <2>3
  <2>6. QED BY <2>4, <2>5
<1>2. QED BY <1>1 DEF Min

----------------------------------------------------------------------------
(* What a window makes of a sequence of events.                            *)

LEMMA AfterType ==
  ASSUME NEW v \in Table, NEW m \in Frame PROVE After(v, m) \in Table
BY NoneAssumption DEF After, ApplyDiff, Frame, Table

IsViews(f, v, s) ==
  /\ f \in [0..Len(s) -> Table]
  /\ f[0] = v /\ \A i \in 1..Len(s) : f[i] = After(f[i - 1], s[i])

\* Views is what its recursion says.
LEMMA ViewsExist ==
  ASSUME NEW v \in Table, NEW s \in Seq(Frame)
  PROVE  IsViews(Views(v, s), v, s)
<1> DEFINE Upto(k, f) == /\ f \in [0..k -> Table]
                         /\ f[0] = v /\ \A i \in 1..k : f[i] = After(f[i - 1], s[i])
           T == {k \in Nat : k =< Len(s) => \E f \in [0..k -> Table] : Upto(k, f)}
           F(f) == [i \in 0..Len(s) |-> IF i = 0 THEN v ELSE After(f[i - 1], s[i])]
<1>l. Len(s) \in Nat /\ \A i \in 1..Len(s) : s[i] \in Frame OBVIOUS
<1>1. 0 \in T
  <2>1. Upto(0, [i \in 0..0 |-> v]) OBVIOUS
  <2>2. QED BY <2>1
<1>2. ASSUME NEW k \in Nat, k \in T PROVE k + 1 \in T
  <2> SUFFICES ASSUME k + 1 =< Len(s)
               PROVE  \E f \in [0..(k + 1) -> Table] : Upto(k + 1, f)
    OBVIOUS
  <2>1. PICK f \in [0..k -> Table] : Upto(k, f) BY <1>2, <1>l
  <2> DEFINE g == [i \in 0..(k + 1) |-> IF i = k + 1 THEN After(f[k], s[k + 1]) ELSE f[i]]
  <2>2. After(f[k], s[k + 1]) \in Table BY <1>l, <2>1, AfterType
  <2>3. g \in [0..(k + 1) -> Table] BY <2>1, <2>2
  <2>4. g[0] = v BY <2>1
  <2>5. ASSUME NEW i \in 1..(k + 1) PROVE g[i] = After(g[i - 1], s[i])
    BY <2>1
  <2>6. QED BY <2>3, <2>4, <2>5
<1>3. Len(s) \in T
  <2> HIDE DEF T
  <2>1. QED BY <1>l, <1>1, <1>2, SetInduction
<1>4. PICK f \in [0..Len(s) -> Table] : Upto(Len(s), f) BY <1>3, <1>l
<1>5. f = F(f)
  <2>1. DOMAIN f = 0..Len(s) /\ DOMAIN F(f) = 0..Len(s) BY <1>4
  <2>2. ASSUME NEW i \in 0..Len(s) PROVE f[i] = F(f)[i] BY <1>4, <1>l
  <2>3. QED BY <1>4, <2>1, <2>2
<1>6. Views(v, s) = F(Views(v, s))
  <2>1. Views(v, s) = CHOOSE g : g = F(g) BY DEF Views
  <2>2. QED BY <1>5, <2>1
<1> DEFINE g == Views(v, s)
           U == {k \in Nat : k =< Len(s) => g[k] \in Table}
<1> HIDE DEF g
<1>7. DOMAIN g = 0..Len(s) /\ \A i \in 0..Len(s) : g[i] = IF i = 0 THEN v ELSE After(g[i - 1], s[i])
  BY <1>6 DEF g
<1>8. 0 \in U BY <1>7, <1>l
<1>9. ASSUME NEW k \in Nat, k \in U PROVE k + 1 \in U BY <1>7, <1>9, <1>l, AfterType
<1>10. \A k \in 0..Len(s) : g[k] \in Table
  <2>1. Nat \subseteq U
    <3> HIDE DEF U
    <3>1. QED BY <1>8, <1>9, SetInduction
  <2>2. QED BY <2>1, <1>l
<1>11. g \in [0..Len(s) -> Table]
  <2>1. g = [i \in 0..Len(s) |-> g[i]] BY <1>6, <1>7 DEF g
  <2>2. QED BY <1>10, <2>1
<1>12. QED BY <1>7, <1>11, <1>l DEF g, IsViews

\* Two windows agree at a point, and see the same in their next k events ...
Meet(v, s, a, w, u, b, k) ==
  /\ v \in Table /\ s \in Seq(Frame) /\ a \in 0..Len(s)
  /\ w \in Table /\ u \in Seq(Frame) /\ b \in 0..Len(u)
  /\ k \in Nat /\ a + k =< Len(s) /\ b + k =< Len(u)
  /\ Views(v, s)[a] = Views(w, u)[b] /\ \A i \in 1..k : s[a + i] = u[b + i]

\* ... and agree that long.
LEMMA ViewsAgree ==
  ASSUME NEW v, NEW s, NEW a, NEW w, NEW u, NEW b, NEW k, Meet(v, s, a, w, u, b, k)
  PROVE  \A i \in 0..k : Views(v, s)[a + i] = Views(w, u)[b + i]
<1> USE DEF Meet
<1> DEFINE f == Views(v, s)
           g == Views(w, u)
           T == {i \in Nat : i =< k => f[a + i] = g[b + i]}
<1>1. IsViews(f, v, s) /\ IsViews(g, w, u) BY ViewsExist
<1>l. Len(s) \in Nat /\ Len(u) \in Nat OBVIOUS
<1>2. 0 \in T
  <2>1. a + 0 = a /\ b + 0 = b BY <1>l
  <2>2. QED BY <2>1
<1> HIDE DEF f, g
<1>3. ASSUME NEW i \in Nat, i \in T PROVE i + 1 \in T
  <2> SUFFICES ASSUME i + 1 =< k PROVE f[a + (i + 1)] = g[b + (i + 1)] OBVIOUS
  <2>1. f[a + i] = g[b + i] BY <1>3
  <2>2. a + (i + 1) \in 1..Len(s) /\ b + (i + 1) \in 1..Len(u) BY <1>l
  <2>3. s[a + (i + 1)] = u[b + (i + 1)]
    <3>1. i + 1 \in 1..k OBVIOUS
    <3>2. QED BY <3>1, Zenon
  <2>4. (a + (i + 1)) - 1 = a + i /\ (b + (i + 1)) - 1 = b + i BY <1>l
  <2>5. QED BY <1>1, <2>1, <2>2, <2>3, <2>4 DEF IsViews
<1>4. QED
  <2>1. Nat \subseteq T
    <3> HIDE DEF T
    <3>1. QED BY <1>2, <1>3, SetInduction
  <2>2. QED BY <2>1 DEF f, g

\* One more event.
LEMMA ViewsAppend ==
  ASSUME NEW v \in Table, NEW s \in Seq(Frame), NEW m \in Frame
  PROVE  /\ \A i \in 0..Len(s) : Views(v, Append(s, m))[i] = Views(v, s)[i]
         /\ Views(v, Append(s, m))[Len(s) + 1] = After(Views(v, s)[Len(s)], m)
<1> DEFINE u == Append(s, m)
<1>1. u \in Seq(Frame) /\ Len(u) = Len(s) + 1 /\ Len(s) \in Nat OBVIOUS
<1>2. \A i \in 1..Len(s) : s[i] = u[i] OBVIOUS
<1>3. u[Len(s) + 1] = m OBVIOUS
<1> HIDE DEF u
<1>4. IsViews(Views(v, u), v, u) /\ IsViews(Views(v, s), v, s) BY <1>1, ViewsExist
<1>5. \A i \in 0..Len(s) : Views(v, s)[i] = Views(v, u)[i]
  <2>1. Views(v, s)[0] = Views(v, u)[0] BY <1>4 DEF IsViews
  <2>2. \A i \in 1..Len(s) : s[0 + i] = u[0 + i] BY <1>1, <1>2
  <2>3. \A i \in 0..Len(s) : Views(v, s)[0 + i] = Views(v, u)[0 + i]
    <3>1. 0 \in 0..Len(s) /\ 0 \in 0..Len(u) BY <1>1
    <3>2. 0 + Len(s) =< Len(s) /\ 0 + Len(s) =< Len(u) /\ Len(s) \in Nat BY <1>1
    <3>3. Meet(v, s, 0, v, u, 0, Len(s)) BY <1>1, <2>1, <2>2, <3>1, <3>2 DEF Meet
    <3>4. QED BY <3>3, ViewsAgree
  <2>4. QED BY <1>1, <2>3
<1>6. Views(v, u)[Len(s) + 1] = After(Views(v, u)[Len(s)], m) BY <1>1, <1>3, <1>4 DEF IsViews
<1>7. QED BY <1>1, <1>5, <1>6 DEF u

\* One event less, which the window has seen.
LEMMA ViewsTail ==
  ASSUME NEW v \in Table, NEW s \in Seq(Frame), s # <<>>
  PROVE  \A i \in 0..(Len(s) - 1) : Views(After(v, s[1]), Tail(s))[i] = Views(v, s)[i + 1]
<1> DEFINE u == Tail(s)
           w == After(v, s[1])
<1>1. u \in Seq(Frame) /\ Len(u) = Len(s) - 1 /\ Len(s) \in Nat \ {0} /\ s[1] \in Frame OBVIOUS
<1>2. \A i \in 1..Len(u) : u[i] = s[i + 1] OBVIOUS
<1>3. w \in Table BY <1>1, AfterType
<1> HIDE DEF u, w
<1>4. IsViews(Views(w, u), w, u) /\ IsViews(Views(v, s), v, s) BY <1>1, <1>3, ViewsExist
<1>5. Views(v, s)[1] = w BY <1>1, <1>4 DEF IsViews, w
<1>6. \A i \in 0..(Len(s) - 1) : Views(w, u)[0 + i] = Views(v, s)[1 + i]
  <2>1. Views(w, u)[0] = Views(v, s)[1] BY <1>4, <1>5 DEF IsViews
  <2>2. \A i \in 1..(Len(s) - 1) : u[0 + i] = s[1 + i] BY <1>1, <1>2
  <2>3. Len(s) - 1 \in Nat /\ 0 + (Len(s) - 1) =< Len(u) /\ 1 + (Len(s) - 1) =< Len(s)
    BY <1>1
  <2>4. 0 \in 0..Len(u) /\ 1 \in 0..Len(s) BY <1>1
  <2>5. Meet(w, u, 0, v, s, 1, Len(s) - 1)
    BY <1>1, <1>3, <2>1, <2>2, <2>3, <2>4 DEF Meet
  <2>6. QED BY <2>5, ViewsAgree
<1>7. QED BY <1>1, <1>6 DEF u, w

\* After a snapshot it does not matter what a window has shown before.
LEMMA ViewsFill ==
  ASSUME NEW v \in Table, NEW w \in Table, NEW s \in Seq(Frame),
         NEW j \in 1..Len(s), s[j].type = "snapshot"
  PROVE  \A i \in j..Len(s) : Views(v, s)[i] = Views(w, s)[i]
<1>1. IsViews(Views(v, s), v, s) /\ IsViews(Views(w, s), w, s) BY ViewsExist
<1>2. Len(s) \in Nat /\ j \in Nat OBVIOUS
<1>3. Views(v, s)[j] = s[j].table /\ Views(w, s)[j] = s[j].table
  BY <1>1 DEF IsViews, After
<1>4. \A i \in 0..(Len(s) - j) : Views(v, s)[j + i] = Views(w, s)[j + i]
  <2> DEFINE k == Len(s) - j
  <2>1. k \in Nat /\ j + k =< Len(s) /\ j \in 0..Len(s) BY <1>2
  <2>2. Views(v, s)[j] = Views(w, s)[j] BY <1>3
  <2> HIDE DEF k
  <2>3. Meet(v, s, j, w, s, j, k) BY <2>1, <2>2 DEF Meet
  <2>4. \A i \in 0..k : Views(v, s)[j + i] = Views(w, s)[j + i] BY <2>3, ViewsAgree
  <2>5. QED BY <2>4 DEF k
<1>5. ASSUME NEW i \in j..Len(s) PROVE Views(v, s)[i] = Views(w, s)[i]
  <2>1. i - j \in 0..(Len(s) - j) /\ j + (i - j) = i BY <1>2
  <2>2. QED BY <1>4, <2>1
<1>6. QED BY <1>5

----------------------------------------------------------------------------
(* Tables and differences.                                                 *)

LEMMA TableFacts ==
  Scan \subseteq Table /\ Empty \in Table /\ Empty \notin Scan
BY ScanAssumption DEF Empty, Table

LEMMA DiffType ==
  ASSUME NEW t \in Table, NEW u \in Table
  PROVE  DiffTables(t, u) \in [Pid -> Row \cup {Absent, None}]
BY DEF DiffTables, Table

\* A window that shows what the old table shows, shows what the new one shows
\* after the difference.
LEMMA DiffLooks ==
  ASSUME NEW v \in Table, NEW t \in Table, NEW u \in Table, Looks(v) = Looks(t)
  PROVE  Looks(ApplyDiff(v, DiffTables(t, u))) = Looks(u)
<1> DEFINE w == ApplyDiff(v, DiffTables(t, u))
<1>1. ASSUME NEW p \in Pid
      PROVE  (IF v[p] = Absent THEN Absent ELSE v[p].look)
               = (IF t[p] = Absent THEN Absent ELSE t[p].look)
  BY DEF Looks
<1>2. ASSUME NEW p \in Pid
      PROVE  (IF w[p] = Absent THEN Absent ELSE w[p].look)
               = (IF u[p] = Absent THEN Absent ELSE u[p].look)
  <2>1. /\ v[p] \in Row \cup {Absent} /\ t[p] \in Row \cup {Absent}
        /\ u[p] \in Row \cup {Absent}
    BY DEF Table
  <2>2. w[p] = IF DiffTables(t, u)[p] = None THEN v[p] ELSE DiffTables(t, u)[p]
    BY DEF ApplyDiff
  <2>3. CASE u[p] = Absent
    BY <1>1, <2>1, <2>2, <2>3, NoneAssumption, AbsentAssumption DEF DiffTables
  <2>4. CASE u[p] # Absent /\ (t[p] = Absent \/ Changed(t[p], u[p]))
    BY <2>1, <2>2, <2>4, NoneAssumption DEF DiffTables
  <2>5. CASE u[p] # Absent /\ t[p] # Absent /\ ~Changed(t[p], u[p])
    <3>1. w[p] = v[p] BY <2>2, <2>5 DEF DiffTables
    <3>2. t[p].look = u[p].look BY <2>5 DEF Changed
    <3>3. v[p] # Absent BY <1>1, <2>1, <2>5, AbsentAssumption
    <3>4. QED BY <1>1, <2>5, <3>1, <3>2, <3>3
  <2>6. QED BY <2>3, <2>4, <2>5
<1>3. QED BY <1>2 DEF Looks

\* Nothing to tell: nothing shows.
LEMMA EmptyDiff ==
  ASSUME NEW t \in Table, NEW u \in Table, IsEmpty(DiffTables(t, u))
  PROVE  Looks(t) = Looks(u)
<1>1. ApplyDiff(t, DiffTables(t, u)) = t BY DEF ApplyDiff, IsEmpty, Table
<1>2. QED BY <1>1, DiffLooks

LEMMA LooksType ==
  ASSUME NEW t \in Table
  PROVE  Looks(t) \in [Pid -> {r.look : r \in Row} \cup {Absent}] /\ Looks(t) # None
BY NoneAssumption DEF Looks, Table

\* Only the empty table shows nothing.
LEMMA LooksEmpty ==
  ASSUME NEW t \in Table, Looks(t) = Looks(Empty) PROVE t = Empty
<1>1. ASSUME NEW p \in Pid PROVE t[p] = Absent
  <2>1. Looks(t)[p] = Absent BY DEF Looks, Empty
  <2>2. QED BY <2>1, AbsentAssumption DEF Looks, Table
<1>2. QED BY <1>1 DEF Table, Empty

LEMMA Frames ==
  /\ Hello \in Frame /\ Closed \in Frame
  /\ \A t \in Table : Snapshot(t) \in Frame
  /\ \A t, u \in Table : Diff(DiffTables(t, u)) \in Frame
BY DiffType DEF Hello, Closed, Snapshot, Diff, Frame

----------------------------------------------------------------------------
(* What is promised.                                                       *)

LEMMA FillsIn ==
  ASSUME NEW s \in Seq(Frame), NEW j \in Fills(s)
  PROVE  j \in 1..Len(s) /\ s[j].type = "snapshot" /\ s[j].table # Empty
BY DEF Fills

LEMMA FillsAppend ==
  ASSUME NEW s \in Seq(Frame), NEW m \in Frame, m # Closed
  PROVE  /\ \A j \in 1..Len(s) : j \in Fills(Append(s, m)) <=> j \in Fills(s)
         /\ Len(s) + 1 \in Fills(Append(s, m)) <=> m.type = "snapshot" /\ m.table # Empty
<1> DEFINE u == Append(s, m)
<1>1. /\ Len(u) = Len(s) + 1 /\ Len(s) \in Nat /\ u[Len(s) + 1] = m
      /\ \A j \in 1..Len(s) : u[j] = s[j]
  OBVIOUS
<1> HIDE DEF u
<1>2. ASSUME NEW j \in 1..Len(s) PROVE j \in Fills(u) <=> j \in Fills(s)
  <2>1. (\A k \in j..Len(u) : u[k] # Closed) <=> (\A k \in j..Len(s) : s[k] # Closed)
    BY <1>1
  <2>2. QED BY <1>1, <2>1 DEF Fills
<1>3. Len(s) + 1 \in Fills(u) <=> m.type = "snapshot" /\ m.table # Empty
  BY <1>1 DEF Fills
<1>4. QED BY <1>2, <1>3 DEF u

LEMMA FillsTail ==
  ASSUME NEW s \in Seq(Frame), s # <<>>
  PROVE  \A j \in 1..(Len(s) - 1) : j \in Fills(Tail(s)) <=> j + 1 \in Fills(s)
<1> DEFINE u == Tail(s)
<1>1. /\ Len(u) = Len(s) - 1 /\ Len(s) \in Nat \ {0}
      /\ \A j \in 1..Len(u) : u[j] = s[j + 1]
  OBVIOUS
<1> HIDE DEF u
<1>2. ASSUME NEW j \in 1..Len(u) PROVE j \in Fills(u) <=> j + 1 \in Fills(s)
  <2>1. (\A k \in j..Len(u) : u[k] # Closed) <=> (\A k \in (j + 1)..Len(s) : s[k] # Closed)
    <3>1. ASSUME NEW k \in (j + 1)..Len(s) PROVE k - 1 \in j..Len(u) /\ s[k] = u[k - 1]
      BY <1>1
    <3>2. ASSUME NEW k \in j..Len(u) PROVE k + 1 \in (j + 1)..Len(s) /\ u[k] = s[k + 1]
      BY <1>1
    <3>3. QED BY <3>1, <3>2
  <2>2. QED BY <1>1, <2>1 DEF Fills
<1>3. QED BY <1>1, <1>2 DEF u

LEMMA PromisedSome ==
  ASSUME NEW s \in Seq(Frame), Promised(FALSE, s, Len(s)) PROVE s # <<>>
<1>1. PICK j \in Fills(s) : TRUE BY DEF Promised
<1>2. Len(s) # 0 BY <1>1 DEF Fills
<1>3. Len(<<>>) = 0 OBVIOUS
<1>4. QED BY <1>2, <1>3, Zenon

\* What comes last decides.
LEMMA PromisedAppend ==
  ASSUME NEW ok \in BOOLEAN, NEW s \in Seq(Frame), NEW m \in Frame, m # Closed
  PROVE  /\ \A i \in 0..Len(s) : Promised(ok, Append(s, m), i) <=> Promised(ok, s, i)
         /\ Promised(ok, Append(s, m), Len(s) + 1) <=>
              Promised(ok, s, Len(s)) \/ (m.type = "snapshot" /\ m.table # Empty)
<1>1. Fills(s) \subseteq 1..Len(s) /\ Fills(Append(s, m)) \subseteq 1..(Len(s) + 1)
  BY AppendProperties DEF Fills
<1>2. Len(s) \in Nat OBVIOUS
<1>3. QED BY <1>1, <1>2, FillsAppend DEF Promised

\* One event later: if ok says then what is promised after the first.
LEMMA PromisedTail ==
  ASSUME NEW ok \in BOOLEAN, NEW s \in Seq(Frame), s # <<>>
  PROVE  \A i \in 0..(Len(s) - 1) :
           Promised(Promised(ok, s, 1), Tail(s), i) <=> Promised(ok, s, i + 1)
<1>1. Fills(s) \subseteq 1..Len(s) /\ Fills(Tail(s)) \subseteq 1..(Len(s) - 1)
  BY HeadTailProperties DEF Fills
<1>2. Len(s) \in Nat \ {0} OBVIOUS
<1>3. ASSUME NEW i \in 0..(Len(s) - 1)
      PROVE  (\E j \in Fills(s) : j =< i + 1)
               <=> (1 \in Fills(s) \/ \E j \in Fills(Tail(s)) : j =< i)
  <2>1. ASSUME NEW j \in Fills(s), j =< i + 1, j # 1
        PROVE  j - 1 \in Fills(Tail(s)) /\ j - 1 =< i
    <3>1. j - 1 \in 1..(Len(s) - 1) /\ (j - 1) + 1 = j BY <1>1, <1>2, <2>1
    <3>2. QED BY <1>2, <2>1, <3>1, FillsTail
  <2>2. ASSUME NEW j \in Fills(Tail(s)), j =< i PROVE j + 1 \in Fills(s) /\ j + 1 =< i + 1
    BY <1>1, <1>2, <2>2, FillsTail
  <2>3. 1 =< i + 1 BY <1>2
  <2>4. QED BY <2>1, <2>2, <2>3
<1>4. (\E j \in Fills(s) : j =< 1) <=> 1 \in Fills(s) BY <1>1, <1>2
<1>5. QED BY <1>3, <1>4 DEF Promised

\* What the daemon may say when its table was t and is u: nothing of it, the
\* whole of it, or the difference.
Says(m, t, u) ==
  \/ m = Hello /\ u = t
  \/ m = Snapshot(u)
  \/ m = Diff(DiffTables(t, u))

\* It keeps its promise, unless it shows an empty table to somebody in step.
LEMMA KeptAppend ==
  ASSUME NEW ok \in BOOLEAN, NEW v \in Table, NEW s \in Seq(Frame),
         NEW t \in Table, NEW u \in Table, NEW m \in Frame,
         Kept(ok, v, s, t), Says(m, t, u), u = Empty => ~Promised(ok, s, Len(s))
  PROVE  Kept(ok, v, Append(s, m), u)
<1> DEFINE w == Append(s, m)
           f == Views(v, s)
           g == Views(v, w)
<1>1. m # Closed BY DEF Says, Hello, Snapshot, Diff, Closed
<1>2. w \in Seq(Frame) /\ Len(w) = Len(s) + 1 /\ Len(s) \in Nat OBVIOUS
<1>3. /\ \A i \in 0..Len(s) : g[i] = f[i]
      /\ g[Len(s) + 1] = After(f[Len(s)], m)
  BY ViewsAppend
<1>4. /\ \A i \in 0..Len(s) : Promised(ok, w, i) <=> Promised(ok, s, i)
      /\ Promised(ok, w, Len(s) + 1) <=>
           Promised(ok, s, Len(s)) \/ (m.type = "snapshot" /\ m.table # Empty)
  BY <1>1, PromisedAppend
<1>5. f \in [0..Len(s) -> Table] /\ g \in [0..Len(w) -> Table]
  BY <1>2, ViewsExist DEF IsViews
<1> HIDE DEF w, f, g
<1>6. ASSUME Promised(ok, w, Len(s) + 1)
      PROVE  Looks(g[Len(s) + 1]) = Looks(u) /\ g[Len(s) + 1] # Empty
  <2>1. f[Len(s)] \in Table /\ g[Len(s) + 1] \in Table BY <1>2, <1>5
  <2>2. ASSUME Promised(ok, s, Len(s))
        PROVE  Looks(f[Len(s)]) = Looks(t) /\ f[Len(s)] # Empty
    BY <1>2, <2>2 DEF Kept, f
  <2>3. Looks(g[Len(s) + 1]) = Looks(u) /\ u # Empty
    <3>1. CASE m = Hello /\ u = t
      BY <1>3, <1>4, <1>6, <2>2, <3>1 DEF Hello, After
    <3>2. CASE m = Snapshot(u)
      BY <1>3, <1>4, <1>6, <3>2 DEF Snapshot, After
    <3>3. CASE m = Diff(DiffTables(t, u))
      <4>1. g[Len(s) + 1] = ApplyDiff(f[Len(s)], DiffTables(t, u))
        BY <1>3, <3>3 DEF Diff, After
      <4>2. Promised(ok, s, Len(s)) BY <1>4, <1>6, <3>3 DEF Diff
      <4>3. QED BY <2>1, <2>2, <4>1, <4>2, DiffLooks
    <3>4. QED BY <3>1, <3>2, <3>3 DEF Says
  <2>4. QED BY <2>1, <2>3, LooksEmpty, TableFacts
<1>7. ASSUME NEW i \in 0..Len(w), Promised(ok, w, i) PROVE g[i] # Empty
  <2>1. CASE i = Len(s) + 1 BY <1>6, <1>7, <2>1
  <2>2. CASE i \in 0..Len(s) BY <1>3, <1>4, <1>7, <2>2 DEF Kept, f
  <2>3. QED BY <1>2, <2>1, <2>2
<1>8. QED BY <1>2, <1>6, <1>7 DEF Kept, w, g

\* The window sees the first event.
LEMMA KeptTail ==
  ASSUME NEW ok \in BOOLEAN, NEW v \in Table, NEW s \in Seq(Frame), s # <<>>,
         NEW t \in Table, Kept(ok, v, s, t)
  PROVE  Kept(Promised(ok, s, 1), After(v, s[1]), Tail(s), t)
<1> DEFINE u == Tail(s)
           w == After(v, s[1])
           k == Promised(ok, s, 1)
<1>1. Len(u) = Len(s) - 1 /\ Len(s) \in Nat \ {0} OBVIOUS
<1>2. \A i \in 0..Len(u) : Views(w, u)[i] = Views(v, s)[i + 1] BY <1>1, ViewsTail
<1>3. \A i \in 0..Len(u) : Promised(k, u, i) <=> Promised(ok, s, i + 1)
  BY <1>1, PromisedTail
<1> HIDE DEF u, w, k
<1>4. ASSUME NEW i \in 0..Len(u), Promised(k, u, i) PROVE Views(w, u)[i] # Empty
  <2>1. i + 1 \in 0..Len(s) /\ Promised(ok, s, i + 1) BY <1>1, <1>3, <1>4
  <2>2. QED BY <1>2, <2>1 DEF Kept
<1>5. ASSUME Promised(k, u, Len(u)) PROVE Looks(Views(w, u)[Len(u)]) = Looks(t)
  <2>1. Promised(ok, s, Len(s)) BY <1>1, <1>3, <1>5
  <2>2. Views(w, u)[Len(u)] = Views(v, s)[Len(s)] BY <1>1, <1>2
  <2>3. QED BY <2>1, <2>2 DEF Kept
<1>6. QED BY <1>4, <1>5 DEF Kept, u, w, k

\* The window is not in step, and changes what it shows.
LEMMA ViewsPromised ==
  ASSUME NEW v \in Table, NEW w \in Table, NEW s \in Seq(Frame), NEW i \in 0..Len(s),
         Promised(FALSE, s, i)
  PROVE  Views(v, s)[i] = Views(w, s)[i]
<1>1. PICK j \in Fills(s) : j =< i BY DEF Promised
<1>2. j \in 1..Len(s) /\ s[j].type = "snapshot" BY FillsIn
<1>3. i \in j..Len(s) BY <1>1, <1>2
<1>4. QED BY <1>2, <1>3, ViewsFill

LEMMA KeptBase ==
  ASSUME NEW v \in Table, NEW w \in Table, NEW s \in Seq(Frame), NEW t \in Table,
         Kept(FALSE, v, s, t)
  PROVE  Kept(FALSE, w, s, t)
<1>1. Len(s) \in Nat OBVIOUS
<1>2. ASSUME NEW i \in 0..Len(s), Promised(FALSE, s, i)
      PROVE  Views(v, s)[i] = Views(w, s)[i]
  BY <1>2, ViewsPromised
<1>3. Len(s) \in 0..Len(s) BY <1>1
<1>4. QED BY <1>2, <1>3 DEF Kept

\* The window does not hear of the first event, which is not one to miss.
LEMMA KeptSkip ==
  ASSUME NEW v \in Table, NEW s \in Seq(Frame), s # <<>>, NEW t \in Table,
         Kept(FALSE, v, s, t)
  PROVE  Kept(FALSE, v, Tail(s), t)
<1> DEFINE w == After(v, s[1])
<1>1. s[1] \in Frame /\ Tail(s) \in Seq(Frame) OBVIOUS
<1>2. w \in Table BY <1>1, AfterType
<1>3. Kept(Promised(FALSE, s, 1), w, Tail(s), t) BY KeptTail
<1>4. Kept(FALSE, w, Tail(s), t) BY <1>3 DEF Kept, Promised
<1> HIDE DEF w
<1>5. QED BY <1>1, <1>2, <1>4, KeptBase

----------------------------------------------------------------------------
(* The sequence of what is promised.                                       *)

Looked == [Pid -> {r.look : r \in Row} \cup {Absent}]

From(ok, s) == IF ok THEN 0 ELSE Min(Fills(s)) - 1

\* The promises begin where Promised does.
LEMMA FromIs ==
  ASSUME NEW ok \in BOOLEAN, NEW s \in Seq(Frame), Promised(ok, s, Len(s))
  PROVE  /\ From(ok, s) \in 0..Len(s)
         /\ ok \/ From(ok, s) < Len(s)
         /\ \A i \in 1..Len(s) : Promised(ok, s, i) <=> From(ok, s) < i
<1>1. Len(s) \in Nat OBVIOUS
<1>2. CASE ok BY <1>1, <1>2 DEF From, Promised
<1>3. CASE ~ok
  <2>1. Fills(s) \subseteq 1..Len(s) /\ Fills(s) # {} BY <1>3 DEF Promised, Fills
  <2>2. Min(Fills(s)) \in Fills(s) /\ \A k \in Fills(s) : Min(Fills(s)) =< k
    BY <1>1, <2>1, MinIs
  <2>3. QED BY <1>1, <1>3, <2>1, <2>2 DEF From, Promised
<1>4. QED BY <1>2, <1>3

LEMMA PromisesAre ==
  ASSUME NEW ok \in BOOLEAN, NEW v \in Table, NEW s \in Seq(Frame),
         Promised(ok, s, Len(s))
  PROVE  /\ Promises(ok, v, s) \in Seq(Looked)
         /\ Len(Promises(ok, v, s)) = Len(s) - From(ok, s)
         /\ \A i \in 1..(Len(s) - From(ok, s)) :
              Promises(ok, v, s)[i] = Looks(Views(v, s)[From(ok, s) + i])
<1> DEFINE from == From(ok, s)
           e == [i \in 1..(Len(s) - from) |-> Looks(Views(v, s)[from + i])]
<1>1. Len(s) \in Nat /\ from \in 0..Len(s) BY FromIs
<1>2. Promises(ok, v, s) = e BY DEF Promises, From
<1> HIDE DEF from
<1>3. ASSUME NEW i \in 1..(Len(s) - from) PROVE Looks(Views(v, s)[from + i]) \in Looked
  <2>1. from + i \in 0..Len(s) BY <1>1
  <2>2. Views(v, s)[from + i] \in Table BY <2>1, ViewsExist DEF IsViews
  <2>3. QED BY <2>2, LooksType DEF Looked
<1>4. e \in Seq(Looked) /\ Len(e) = Len(s) - from BY <1>1, <1>3
<1>5. QED BY <1>2, <1>4 DEF from

LEMMA NoPromises ==
  ASSUME NEW ok, NEW v, NEW s, ~Promised(ok, s, Len(s)) PROVE Promises(ok, v, s) = <<>>
BY DEF Promises

\* One more event is one more promise, ...
LEMMA PromisesAppend ==
  ASSUME NEW ok \in BOOLEAN, NEW v \in Table, NEW s \in Seq(Frame),
         NEW m \in Frame, m # Closed, Promised(ok, s, Len(s))
  PROVE  Promises(ok, v, Append(s, m))
           = Append(Promises(ok, v, s), Looks(Views(v, Append(s, m))[Len(s) + 1]))
<1> DEFINE u == Append(s, m)
           a == Promises(ok, v, s)
           b == Promises(ok, v, u)
           x == Looks(Views(v, u)[Len(s) + 1])
<1>1. u \in Seq(Frame) /\ Len(u) = Len(s) + 1 /\ Len(s) \in Nat OBVIOUS
<1>2. /\ \A i \in 0..Len(s) : Promised(ok, u, i) <=> Promised(ok, s, i)
      /\ Promised(ok, u, Len(u))
  BY <1>1, PromisedAppend
<1>3. \A i \in 0..Len(s) : Views(v, u)[i] = Views(v, s)[i] BY ViewsAppend
<1>4. From(ok, u) = From(ok, s)
  <2>1. CASE ok BY <2>1 DEF From
  <2>2. CASE ~ok
    <3>1. From(ok, s) \in 0..Len(s) /\ From(ok, s) < Len(s) BY <2>2, FromIs
    <3>2. From(ok, u) \in 0..Len(u)
      <4> HIDE DEF u
      <4>1. QED BY <1>1, <1>2, FromIs
    <3>3. \A i \in 1..Len(s) : Promised(ok, s, i) <=> From(ok, s) < i BY FromIs
    <3>4. \A i \in 1..Len(u) : Promised(ok, u, i) <=> From(ok, u) < i
      <4> HIDE DEF u
      <4>1. QED BY <1>1, <1>2, FromIs
    <3>5. \A i \in 1..Len(s) : From(ok, u) < i <=> From(ok, s) < i BY <1>1, <1>2, <3>3, <3>4
    <3> DEFINE f == From(ok, u)
               g == From(ok, s)
    <3> HIDE DEF f, g
    <3>6. f \in 0..(Len(s) + 1) /\ g \in 0..Len(s) /\ g < Len(s)
          /\ \A i \in 1..Len(s) : f < i <=> g < i
      BY <1>1, <3>1, <3>2, <3>5 DEF f, g
    <3>7. g + 1 \in 1..Len(s) /\ (g = 0 \/ g \in 1..Len(s)) BY <1>1, <3>6
    <3>8. f = g BY <1>1, <3>6, <3>7
    <3>9. QED BY <3>8 DEF f, g
  <2>3. QED BY <2>1, <2>2
<1> DEFINE from == From(ok, s)
<1>5. from \in 0..Len(s) BY FromIs
<1>6. /\ a \in Seq(Looked) /\ Len(a) = Len(s) - from
      /\ \A i \in 1..(Len(s) - from) : a[i] = Looks(Views(v, s)[from + i])
  BY PromisesAre
<1>7. /\ b \in Seq(Looked) /\ Len(b) = Len(u) - from
      /\ \A i \in 1..(Len(u) - from) : b[i] = Looks(Views(v, u)[from + i])
  <2> HIDE DEF u
  <2>1. QED BY <1>1, <1>2, <1>4, PromisesAre
<1> HIDE DEF a, b, from, u
<1>8. x \in Looked
  <2>1. Len(s) + 1 - from \in 1..(Len(u) - from) /\ from + (Len(s) + 1 - from) = Len(s) + 1
    BY <1>1, <1>5
  <2>2. b[Len(s) + 1 - from] = x BY <1>7, <2>1
  <2>3. QED BY <1>7, <2>1, <2>2
<1> HIDE DEF x
<1>9. /\ Append(a, x) \in Seq(Looked) /\ Len(Append(a, x)) = Len(a) + 1
      /\ \A i \in 1..Len(a) : Append(a, x)[i] = a[i]
      /\ Append(a, x)[Len(a) + 1] = x
  BY <1>6, <1>8
<1>10. ASSUME NEW i \in 1..(Len(s) - from + 1) PROVE b[i] = Append(a, x)[i]
  <2>1. CASE i \in 1..(Len(s) - from)
    <3>1. from + i \in 0..Len(s) BY <1>1, <1>5, <2>1
    <3>2. i \in 1..Len(a) /\ i \in 1..(Len(u) - from) BY <1>1, <1>5, <1>6, <2>1
    <3>3. b[i] = Looks(Views(v, s)[from + i]) BY <1>3, <1>7, <3>1, <3>2
    <3>4. a[i] = Looks(Views(v, s)[from + i]) BY <1>6, <2>1
    <3>5. QED BY <1>9, <3>2, <3>3, <3>4
  <2>2. CASE i = Len(s) - from + 1
    <3>1. from + i = Len(s) + 1 BY <1>1, <1>5, <2>2
    <3>2. i = Len(a) + 1 /\ i \in 1..(Len(u) - from) BY <1>1, <1>5, <1>6, <2>2
    <3>3. b[i] = x BY <1>7, <3>1, <3>2 DEF x
    <3>4. Append(a, x)[i] = x BY <1>9, <3>2
    <3>5. QED BY <3>3, <3>4
  <2>3. i \in 1..(Len(s) - from) \/ i = Len(s) - from + 1 BY <1>1, <1>5
  <2>4. QED BY <2>1, <2>2, <2>3
<1>11. Len(b) = Len(Append(a, x)) /\ Len(b) = Len(s) - from + 1
  BY <1>1, <1>5, <1>6, <1>7, <1>9
<1>12. b = Append(a, x) BY <1>7, <1>9, <1>10, <1>11, SeqEqual
<1>13. QED BY <1>12 DEF a, b, u, x

\* The last promise is the last view.
LEMMA PromisesEnd ==
  ASSUME NEW ok \in BOOLEAN, NEW v \in Table, NEW s \in Seq(Frame), s # <<>>,
         Promised(ok, s, Len(s))
  PROVE  /\ Promises(ok, v, s) \in Seq(Looked) /\ Promises(ok, v, s) # <<>>
         /\ Last(Promises(ok, v, s)) = Looks(Views(v, s)[Len(s)])
<1> DEFINE a == Promises(ok, v, s)
           f == From(ok, s)
<1>1. Len(s) \in Nat \ {0} OBVIOUS
<1>2. f \in 0..Len(s) /\ f < Len(s)
  <2>1. /\ f \in 0..Len(s)
        /\ ok \/ f < Len(s)
    BY FromIs
  <2>2. ok => f = 0 BY DEF From
  <2>3. QED BY <1>1, <2>1, <2>2
<1>3. /\ a \in Seq(Looked) /\ Len(a) = Len(s) - f
      /\ \A i \in 1..(Len(s) - f) : a[i] = Looks(Views(v, s)[f + i])
  BY PromisesAre
<1> HIDE DEF a, f
<1>4. Len(s) - f \in 1..(Len(s) - f) /\ f + (Len(s) - f) = Len(s) BY <1>1, <1>2
<1>5. a # <<>> /\ a[Len(a)] = Looks(Views(v, s)[Len(s)]) BY <1>3, <1>4
<1>6. QED BY <1>3, <1>5 DEF Last, a

\* ... unless it is the first one.
LEMMA PromisesFirst ==
  ASSUME NEW v \in Table, NEW s \in Seq(Frame), NEW m \in Frame, m # Closed,
         NEW ok \in BOOLEAN, ~Promised(ok, s, Len(s)),
         Promised(ok, Append(s, m), Len(s) + 1)
  PROVE  /\ Promises(ok, v, Append(s, m)) \in Seq(Looked)
         /\ Promises(ok, v, Append(s, m)) # <<>>
         /\ Last(Promises(ok, v, Append(s, m)))
              = Looks(Views(v, Append(s, m))[Len(s) + 1])
<1> DEFINE u == Append(s, m)
<1>1. u \in Seq(Frame) /\ Len(u) = Len(s) + 1 /\ Len(s) \in Nat OBVIOUS
<1> HIDE DEF u
<1>2. u # <<>> /\ Promised(ok, u, Len(u)) BY <1>1 DEF u
<1>3. /\ Promises(ok, v, u) \in Seq(Looked) /\ Promises(ok, v, u) # <<>>
      /\ Last(Promises(ok, v, u)) = Looks(Views(v, u)[Len(u)])
  BY <1>1, <1>2, PromisesEnd
<1>4. QED BY <1>1, <1>3 DEF u

\* The first event is seen: a promise is kept, if it was one.
LEMMA PromisesTail ==
  ASSUME NEW ok \in BOOLEAN, NEW v \in Table, NEW s \in Seq(Frame), s # <<>>
  PROVE  LET a == Promises(ok, v, s)
             b == Promises(Promised(ok, s, 1), After(v, s[1]), Tail(s))
         IN  IF Promised(ok, s, 1)
             THEN a # <<>> /\ Head(a) = Looks(After(v, s[1])) /\ b = Tail(a)
             ELSE b = a
<1> DEFINE u == Tail(s)
           w == After(v, s[1])
           k == Promised(ok, s, 1)
           a == Promises(ok, v, s)
           b == Promises(k, w, u)
<1>1. /\ Len(u) = Len(s) - 1 /\ Len(s) \in Nat \ {0} /\ u \in Seq(Frame)
      /\ s[1] \in Frame /\ k \in BOOLEAN
  BY DEF Promised
<1>2. w \in Table BY <1>1, AfterType
<1>3. \A i \in 0..Len(u) : Views(w, u)[i] = Views(v, s)[i + 1] BY <1>1, ViewsTail
<1>4. \A i \in 0..Len(u) : Promised(k, u, i) <=> Promised(ok, s, i + 1)
  BY <1>1, PromisedTail
<1>5. Views(v, s)[1] = w BY <1>1, ViewsExist DEF IsViews
<1> HIDE DEF u, w, k
<1>6. CASE ~Promised(ok, s, Len(s))
  <2>1. ~Promised(k, u, Len(u)) BY <1>1, <1>4, <1>6
  <2>2. ~k BY <1>1, <1>6 DEF k, Promised, Fills
  <2>3. a = <<>> /\ b = <<>> BY <1>6, <2>1, NoPromises
  <2>4. QED BY <2>2, <2>3 DEF k, w, u
<1>7. CASE Promised(ok, s, Len(s))
  <2>1. Promised(k, u, Len(u)) BY <1>1, <1>4, <1>7
  <2> DEFINE f == From(ok, s)
             g == From(k, u)
  <2>2. /\ f \in 0..Len(s)
        /\ ok \/ f < Len(s)
        /\ \A i \in 1..Len(s) : Promised(ok, s, i) <=> f < i
    BY <1>7, FromIs
  <2>3. /\ g \in 0..Len(u)
        /\ k \/ g < Len(u)
        /\ \A i \in 1..Len(u) : Promised(k, u, i) <=> g < i
    BY <1>1, <2>1, FromIs
  <2>4. /\ a \in Seq(Looked) /\ Len(a) = Len(s) - f
        /\ \A i \in 1..(Len(s) - f) : a[i] = Looks(Views(v, s)[f + i])
    BY <1>7, PromisesAre
  <2>5. /\ b \in Seq(Looked) /\ Len(b) = Len(u) - g
        /\ \A i \in 1..(Len(u) - g) : b[i] = Looks(Views(w, u)[g + i])
    BY <1>1, <1>2, <2>1, PromisesAre
  <2>6. k => f = 0 /\ g = 0
    <3>1. k => g = 0 BY DEF From
    <3> HIDE DEF f, g
    <3>2. k => f < 1 BY <1>1, <2>2 DEF k
    <3>3. f < 1 => f = 0 BY <1>1, <2>2
    <3>4. QED BY <3>1, <3>2, <3>3
  <2> HIDE DEF f, g, a, b
  <2>7. CASE k
    <3>1. a # <<>> /\ Head(a) = a[1] /\ a[1] = Looks(w) BY <1>1, <1>5, <2>4, <2>6, <2>7
    <3>2. Tail(a) \in Seq(Looked) /\ Len(Tail(a)) = Len(a) - 1
          /\ \A i \in 1..Len(Tail(a)) : Tail(a)[i] = a[i + 1]
      BY <2>4, <3>1
    <3>3. ASSUME NEW i \in 1..Len(u) PROVE b[i] = Tail(a)[i]
      <4>1. i + 1 \in 1..Len(s) /\ i \in 0..Len(u) BY <1>1
      <4>2. QED BY <1>1, <1>3, <2>4, <2>5, <2>6, <2>7, <3>2, <4>1
    <3>4. Len(b) = Len(Tail(a)) /\ Len(b) = Len(u) BY <1>1, <2>4, <2>5, <2>6, <2>7, <3>2
    <3>5. b = Tail(a) BY <2>5, <3>2, <3>3, <3>4, SeqEqual
    <3>6. QED BY <2>7, <3>1, <3>5 DEF k, w, u, a, b
  <2>8. CASE ~k
    <3>1. f = g + 1
      <4>1. 0 < f BY <1>1, <2>2, <2>8 DEF k
      <4>2. f < Len(s) /\ g < Len(u) BY <2>2, <2>3, <2>8 DEF k, Promised
      <4>3. \A i \in 1..Len(u) : g < i <=> f < i + 1
        <5>1. ASSUME NEW i \in 1..Len(u) PROVE g < i <=> f < i + 1
          <6>1. i + 1 \in 1..Len(s) /\ i \in 0..Len(u) BY <1>1
          <6>2. QED BY <1>4, <2>2, <2>3, <6>1
        <5>2. QED BY <5>1
      <4>4. f \in 1..Len(u) /\ g + 1 \in 1..Len(u) BY <1>1, <2>2, <2>3, <4>1, <4>2
      <4>5. g < f BY <2>2, <2>3, <4>3, <4>4
      <4>6. f < (g + 1) + 1 BY <2>2, <2>3, <4>3, <4>4
      <4>7. QED BY <2>2, <2>3, <4>5, <4>6
    <3>2. Len(a) = Len(b) BY <1>1, <2>2, <2>3, <2>4, <2>5, <3>1
    <3>3. ASSUME NEW i \in 1..Len(a) PROVE b[i] = a[i]
      <4>1. g + i \in 0..Len(u) /\ f + i = (g + i) + 1
            /\ i \in 1..(Len(s) - f) /\ i \in 1..(Len(u) - g)
        BY <1>1, <2>2, <2>3, <2>4, <2>5, <3>1, <3>2
      <4>2. QED BY <1>3, <2>4, <2>5, <4>1
    <3>4. b = a BY <2>4, <2>5, <3>2, <3>3, SeqEqual
    <3>5. QED BY <2>8, <3>4 DEF k, w, u, a, b
  <2>9. QED BY <2>7, <2>8
<1>8. QED BY <1>6, <1>7

\* A window that is not in step is promised the same whatever it shows.
LEMMA PromisesBase ==
  ASSUME NEW v \in Table, NEW w \in Table, NEW s \in Seq(Frame)
  PROVE  Promises(FALSE, v, s) = Promises(FALSE, w, s)
<1> DEFINE a == Promises(FALSE, v, s)
           b == Promises(FALSE, w, s)
           f == From(FALSE, s)
<1>1. CASE ~Promised(FALSE, s, Len(s)) BY <1>1, NoPromises
<1>2. CASE Promised(FALSE, s, Len(s))
  <2>1. /\ f \in 0..Len(s)
        /\ \A i \in 1..Len(s) : Promised(FALSE, s, i) <=> f < i
    BY <1>2, FromIs
  <2>2. /\ a \in Seq(Looked) /\ Len(a) = Len(s) - f
        /\ \A i \in 1..(Len(s) - f) : a[i] = Looks(Views(v, s)[f + i])
    BY <1>2, PromisesAre
  <2>3. /\ b \in Seq(Looked) /\ Len(b) = Len(s) - f
        /\ \A i \in 1..(Len(s) - f) : b[i] = Looks(Views(w, s)[f + i])
    BY <1>2, PromisesAre
  <2>4. Len(s) \in Nat OBVIOUS
  <2> HIDE DEF a, b, f
  <2>5. ASSUME NEW i \in 1..(Len(s) - f) PROVE a[i] = b[i]
    <3>1. f + i \in 0..Len(s) /\ f + i \in 1..Len(s) /\ f < f + i BY <2>1, <2>4
    <3>2. Views(v, s)[f + i] = Views(w, s)[f + i] BY <2>1, <3>1, ViewsPromised
    <3>3. QED BY <2>2, <2>3, <3>2
  <2>6. a = b BY <2>2, <2>3, <2>5, SeqEqual
  <2>7. QED BY <2>6 DEF a, b
<1>3. QED BY <1>1, <1>2

----------------------------------------------------------------------------
(* Types.                                                                  *)

LEMMA Queues ==
  ASSUME TypeOK
  PROVE  /\ Way \in Seq(Frame) /\ Len(Way) = Len(events) + Len(wire)
         /\ \A m \in Frame : events \o Append(wire, m) = Append(Way, m)
<1>1. events \in Seq(Frame) /\ wire \in Seq(Frame) BY DEF TypeOK
<1>2. Way \in Seq(Frame) /\ Len(Way) = Len(events) + Len(wire)
  BY <1>1, ConcatProperties DEF Way
<1>3. ASSUME NEW m \in Frame PROVE events \o Append(wire, m) = Append(Way, m)
  <2>1. Append(wire, m) = wire \o <<m>> BY <1>1, AppendIsConcat
  <2>2. Append(Way, m) = Way \o <<m>> BY <1>2, AppendIsConcat
  <2>3. <<m>> \in Seq(Frame) OBVIOUS
  <2>4. QED BY <1>1, <2>1, <2>2, <2>3, ConcatAssociative DEF Way
<1>4. QED BY <1>2, <1>3

LEMMA BroadcastType ==
  ASSUME TypeOK, NEW m \in Frame, Broadcast(m) PROVE wire' \in Seq(Frame)
BY DEF TypeOK, Broadcast

LEMMA TypeInductive == TypeOK /\ [Next]_vars => TypeOK'
<1> SUFFICES ASSUME TypeOK, [Next]_vars PROVE TypeOK' OBVIOUS
<1>1. CASE Register BY <1>1 DEF TypeOK, Register, server, Connection
<1>2. CASE SendHello BY <1>2, Frames DEF TypeOK, SendHello, server, Connection
<1>3. CASE HandleHello
  <2>1. wire' \in Seq(Frame)
    BY <1>3, BroadcastType, Frames DEF HandleHello, HelloReply, TypeOK
  <2>2. QED BY <1>3, <2>1 DEF TypeOK, HandleHello, server, Connection
<1>4. ASSUME NEW t \in Scan, Poll(t) PROVE TypeOK'
  <2>1. t \in Table BY TableFacts
  <2>2. wire' \in Seq(Frame)
    BY <1>4, <2>1, BroadcastType, Frames DEF Poll, Announce, TypeOK
  <2>3. QED BY <1>4, <2>1, <2>2 DEF TypeOK, Poll, Announce
<1>5. CASE Connect BY <1>5 DEF TypeOK, Connect, server, Connection
<1>6. CASE ReadFrame
  <2>1. Head(wire) \in Frame /\ Tail(wire) \in Seq(Frame) BY <1>6 DEF ReadFrame, TypeOK
  <2>2. latest' \in Table \cup {None}
    BY <1>6, <2>1 DEF ReadFrame, LatestAfter, Frame, TypeOK
  <2>3. events' \in Seq(Frame) BY <1>6, <2>1 DEF ReadFrame, Emit, TypeOK
  <2>4. QED BY <1>6, <2>1, <2>2, <2>3 DEF TypeOK, ReadFrame, server
<1>7. CASE ReadEnd
  <2>1. events' \in Seq(Frame) BY <1>7, Frames DEF ReadEnd, Emit, TypeOK
  <2>2. QED BY <1>7, <2>1 DEF TypeOK, ReadEnd, server, Connection
<1>8. CASE ServeState BY <1>8 DEF TypeOK, ServeState, server
<1>9. CASE Listen BY <1>9 DEF TypeOK, Listen, server
<1>10. CASE OnEvent
  <2>1. Head(events) \in Frame /\ Tail(events) \in Seq(Frame) BY <1>10 DEF OnEvent, TypeOK
  <2>2. view' \in Table BY <1>10, <2>1, AfterType DEF OnEvent, TypeOK
  <2>3. synced' \in BOOLEAN BY <1>10 DEF OnEvent, SyncedAfter, TypeOK
  <2>4. QED BY <1>10, <2>1, <2>2, <2>3 DEF TypeOK, OnEvent, server
<1>11. CASE OnState
  <2>1. view' \in Table BY <1>11 DEF OnState, StateFrom, TypeOK
  <2>2. QED BY <1>11, <2>1 DEF TypeOK, OnState, server
<1>12. CASE Request
  <2>1. wire' \in Seq(Frame) BY <1>12, BroadcastType, Frames DEF Request, TypeOK
  <2>2. QED BY <1>12, <2>1 DEF TypeOK, Request, server
<1>13. CASE Restart
  <2>1. wire' \in Seq(Frame) BY <1>13 DEF Restart, TypeOK
  <2>2. QED BY <1>13, <2>1, TableFacts DEF TypeOK, Restart, Connection
<1>14. CASE Start BY <1>14 DEF TypeOK, Start, server
<1>15. CASE UNCHANGED vars BY <1>15 DEF TypeOK, vars
<1>16. QED
  BY <1>1, <1>2, <1>3, <1>4, <1>5, <1>6, <1>7, <1>8, <1>9, <1>10, <1>11, <1>12, <1>13,
     <1>14, <1>15
  DEF Next, Server, Gui

\* Frames, events, tables and the window's state have their types.
THEOREM TypeCorrect == Spec => []TypeOK
<1>1. Init => TypeOK
  <2>1. <<>> \in Seq(Frame) OBVIOUS
  <2>2. QED BY <2>1, TableFacts DEF Init, TypeOK, Connection
<1>2. QED BY <1>1, TypeInductive, PTL DEF Spec
----------------------------------------------------------------------------
(* What is on its way, step by step.                                       *)

\* The daemon says m to a connection.
Tells(m) ==
  /\ Live /\ Live' /\ wire' = Append(wire, m)
  /\ m \in Frame /\ Says(m, table, table')
  /\ IF announced' THEN table' \in Scan ELSE UNCHANGED server
  /\ UNCHANGED <<window, events, view, synced>>

\* A poll or a request that nobody hears of.
Silent ==
  /\ IF announced' THEN table' \in Scan ELSE UNCHANGED server
  /\ Live => Looks(table') = Looks(table) /\ announced' = announced
  /\ UNCHANGED <<conn, window, wire, events, view, synced>>

LEMMA InStepBoolean == InStep \in BOOLEAN /\ InStep' \in BOOLEAN
BY DEF InStep

LEMMA ServerSteps ==
  ASSUME TypeOK, Announced,
         SendHello \/ HandleHello \/ Request \/ (\E t \in Scan : Poll(t))
  PROVE  Silent \/ \E m \in Frame : Tells(m)
<1>1. IF announced THEN table \in Scan ELSE UNCHANGED <<>> BY DEF Announced
<1>2. table \in Table BY DEF TypeOK
<1>3. CASE SendHello
  <2>1. Tells(Hello) BY <1>1, <1>3, Frames DEF SendHello, Tells, Live, Says, server
  <2>2. QED BY <2>1, Frames
<1>4. CASE HandleHello
  <2>1. Tells(Snapshot(table))
    BY <1>1, <1>2, <1>4, Frames
    DEF HandleHello, HelloReply, Broadcast, Tells, Live, Says, server
  <2>2. QED BY <1>2, <2>1, Frames
<1>5. CASE Request /\ Live
  <2>1. Tells(Snapshot(table))
    BY <1>1, <1>2, <1>5, Frames DEF Request, Broadcast, Tells, Live, Says, server
  <2>2. QED BY <1>2, <2>1, Frames
<1>6. CASE Request /\ ~Live
  <2>1. Silent BY <1>1, <1>6 DEF Request, Broadcast, Silent, server
  <2>2. QED BY <2>1
<1>7. ASSUME NEW t \in Scan, Poll(t)
      PROVE  Silent \/ \E m \in Frame : Tells(m)
  <2>1. t \in Table /\ table' = t /\ announced' = TRUE
    BY <1>7, TableFacts DEF Poll, Announce
  <2>2. UNCHANGED <<conn, window, events, view, synced>> BY <1>7 DEF Poll
  <2>3. CASE ~Live
    <3>1. UNCHANGED wire BY <1>7, <2>3 DEF Poll, Announce, Broadcast
    <3>2. Silent BY <2>1, <2>2, <2>3, <3>1 DEF Silent
    <3>3. QED BY <3>2
  <2>4. CASE Live /\ ~announced
    <3>1. wire' = Append(wire, Snapshot(t)) BY <1>7, <2>4 DEF Poll, Announce, Broadcast
    <3>2. Tells(Snapshot(t)) BY <2>1, <2>2, <2>4, <3>1, Frames DEF Tells, Says, Live
    <3>3. QED BY <2>1, <3>2, Frames
  <2>5. CASE Live /\ announced /\ IsEmpty(DiffTables(table, t))
    <3>1. UNCHANGED wire BY <1>7, <2>5 DEF Poll, Announce
    <3>2. Looks(t) = Looks(table) BY <1>2, <2>1, <2>5, EmptyDiff
    <3>3. announced' = announced BY <2>1, <2>5 DEF TypeOK
    <3>4. Silent BY <2>1, <2>2, <3>1, <3>2, <3>3 DEF Silent
    <3>5. QED BY <3>4
  <2>6. CASE Live /\ announced /\ ~IsEmpty(DiffTables(table, t))
    <3>1. wire' = Append(wire, Diff(DiffTables(table, t)))
      BY <1>7, <2>6 DEF Poll, Announce, Broadcast
    <3>2. Diff(DiffTables(table, t)) \in Frame BY <1>2, <2>1, Frames
    <3>3. Tells(Diff(DiffTables(table, t)))
      BY <2>1, <2>2, <2>6, <3>1, <3>2 DEF Tells, Says, Live
    <3>4. QED BY <3>2, <3>3
  <2>7. QED BY <2>3, <2>4, <2>5, <2>6
<1>8. QED BY <1>3, <1>4, <1>5, <1>6, <1>7

\* What it says comes last.
LEMMA TellsLast ==
  ASSUME TypeOK, NEW m \in Frame, Tells(m)
  PROVE  Way' = Append(Way, m) /\ InStep' = InStep
<1>1. Way' = Append(Way, m)
  <2>1. Way' = events \o Append(wire, m) BY DEF Tells, Way
  <2>2. QED BY <2>1, Queues
<1>2. InStep' <=> InStep BY DEF Tells, InStep, Interrupted
<1>3. QED BY <1>1, <1>2, InStepBoolean

\* The daemon has nothing to promise, or an empty table to show, only before
\* its first poll.
LEMMA TellsPromises ==
  ASSUME TypeOK, WayInv, NEW m \in Frame, Tells(m)
  PROVE  /\ m # Closed /\ table' \in Table
         /\ table' = Empty => ~Promised(InStep, Way, Len(Way))
         /\ ~announced' => ~Promised(InStep, Way', Len(Way'))
<1>1. m # Closed BY DEF Tells, Says, Hello, Snapshot, Diff, Closed
<1>2. table' \in Table BY TableFacts DEF Tells, TypeOK, server
<1>3. ~announced' => table' = Empty /\ table = Empty /\ ~announced
  BY DEF Tells, server, WayInv, Announced
<1>4. table' = Empty => ~announced' BY TableFacts DEF Tells
<1>5. ~announced' => ~Promised(InStep, Way, Len(Way))
  BY <1>3 DEF WayInv, FirstThingsFirst, Tells
<1>6. ASSUME ~announced' PROVE ~Promised(InStep, Way', Len(Way'))
  <2>1. Way \in Seq(Frame) BY Queues
  <2>2. Promised(InStep, Append(Way, m), Len(Way) + 1) <=>
          Promised(InStep, Way, Len(Way)) \/ (m.type = "snapshot" /\ m.table # Empty)
    BY <1>1, <2>1, PromisedAppend, InStepBoolean
  <2>3. ~(m.type = "snapshot" /\ m.table # Empty)
    BY <1>3, <1>6 DEF Tells, Says, Hello, Snapshot, Diff
  <2>4. Len(Append(Way, m)) = Len(Way) + 1 BY <2>1
  <2>5. QED BY <1>5, <1>6, <2>2, <2>3, <2>4, TellsLast
<1>7. QED BY <1>1, <1>2, <1>4, <1>5, <1>6

LEMMA TellsKeeps ==
  ASSUME TypeOK, WayInv, NEW m \in Frame, Tells(m) PROVE WayInv'
<1>1. Way \in Seq(Frame) /\ Len(Way') = Len(Way) + 1 BY Queues, TellsLast
<1>2. Announced' BY DEF Tells, server, WayInv, Announced
<1>3. HearsNothing' BY DEF Tells, WayInv, HearsNothing
<1>4. NoneEnds'
  BY TellsPromises DEF Tells, WayInv, NoneEnds, TypeOK
<1>5. CutOff' BY DEF Tells, CutOff, Live
<1>6. FirstThingsFirst' BY TellsPromises, TellsLast DEF FirstThingsFirst
<1>7. PromisesKept'
  <2>1. Kept(InStep, view, Way, table) BY DEF WayInv, PromisesKept, Tells
  <2>2. Kept(InStep, view, Append(Way, m), table')
    BY <1>1, <2>1, TellsPromises, KeptAppend, InStepBoolean DEF Tells, TypeOK
  <2>3. QED BY <2>2, TellsLast DEF PromisesKept, Tells
<1>8. QED BY <1>2, <1>3, <1>4, <1>5, <1>6, <1>7 DEF WayInv

LEMMA SilentKeeps ==
  ASSUME TypeOK, WayInv, Silent PROVE WayInv'
<1>1. UNCHANGED <<Way, InStep, Live>> BY DEF Silent, Way, InStep, Interrupted, Live
<1>2. Announced' BY DEF Silent, server, WayInv, Announced
<1>3. HearsNothing' /\ NoneEnds' /\ CutOff'
  BY DEF Silent, WayInv, HearsNothing, NoneEnds, CutOff
<1>4. FirstThingsFirst'
  BY <1>1 DEF Silent, WayInv, FirstThingsFirst, server
<1>5. PromisesKept'
  <2>1. Live => Kept(InStep, view, Way, table) BY DEF WayInv, PromisesKept
  <2>2. Live => Kept(InStep, view, Way, table') BY <2>1 DEF Silent, Kept
  <2>3. QED BY <1>1, <2>2 DEF Silent, PromisesKept
<1>6. QED BY <1>2, <1>3, <1>4, <1>5 DEF WayInv

\* Nothing is promised before the daemon has let the GUI in.
LEMMA CutOffPromises ==
  ASSUME TypeOK, CutOff, conn \in {"off", "queued"}
  PROVE  /\ ~synced \/ Interrupted
         /\ \A i \in 0..Len(Way) : ~Promised(FALSE, Way, i)
<1>1. Way = events /\ events \in Seq(Frame) BY ConcatEmptySeq DEF CutOff, Way, TypeOK
<1>2. CASE events = <<>> /\ ~synced
  <2>1. Len(events) = 0 BY <1>2
  <2>2. Fills(Way) = {} BY <1>1, <2>1 DEF Fills
  <2>3. QED BY <1>2, <2>2 DEF Promised
<1>3. CASE events # <<>> /\ events[Len(events)] = Closed
  <2>1. Len(events) \in Nat \ {0} /\ Len(events) \in DOMAIN events BY <1>1, <1>3
  <2>2. Interrupted BY <1>3, <2>1 DEF Interrupted
  <2>3. ASSUME NEW j \in Fills(Way) PROVE FALSE
    <3>1. j \in 1..Len(events) /\ \A k \in j..Len(events) : events[k] # Closed
      BY <1>1 DEF Fills
    <3>2. Len(events) \in j..Len(events) BY <2>1, <3>1
    <3>3. QED BY <1>3, <3>1, <3>2
  <2>4. QED BY <2>2, <2>3 DEF Promised
<1>4. QED BY <1>2, <1>3 DEF CutOff

LEMMA RegisterPromises ==
  ASSUME TypeOK, WayInv, Register
  PROVE  /\ ~InStep /\ ~InStep' /\ Way' = Way
         /\ \A i \in 0..Len(Way) : ~Promised(FALSE, Way, i)
<1>1. conn \in {"off", "queued"} BY DEF Register
<1>2. ~synced \/ Interrupted BY <1>1, CutOffPromises DEF WayInv
<1>3. UNCHANGED <<Way, synced, Interrupted>> BY DEF Register, Way, Interrupted
<1>4. QED BY <1>1, <1>2, <1>3, CutOffPromises DEF WayInv, InStep

LEMMA RegisterKeeps ==
  ASSUME TypeOK, WayInv, Register PROVE WayInv'
<1>1. UNCHANGED <<table, announced, window, wire, events, view, synced>>
  BY DEF Register, server
<1>2. Announced' /\ HearsNothing' /\ NoneEnds'
  BY <1>1 DEF WayInv, Announced, HearsNothing, NoneEnds
<1>3. CutOff' BY DEF Register, CutOff
<1>4. Len(Way) \in 0..Len(Way) BY Queues
<1>5. InStep' = FALSE BY RegisterPromises, InStepBoolean
<1>6. FirstThingsFirst' BY <1>4, <1>5, RegisterPromises DEF FirstThingsFirst
<1>7. PromisesKept' BY <1>4, <1>5, RegisterPromises DEF PromisesKept, Kept
<1>8. QED BY <1>2, <1>3, <1>6, <1>7 DEF WayInv

\* A frame becomes an event, ...
LEMMA ReadPromises ==
  ASSUME TypeOK, WayInv, ReadFrame
  PROVE  IF window = "listening" THEN Way' = Way /\ InStep' = InStep
         ELSE InStep = FALSE /\ InStep' = FALSE /\ Way # <<>> /\ Way' = Tail(Way)
<1>1. wire \in Seq(Frame) /\ wire # <<>> /\ events \in Seq(Frame)
      /\ Head(wire) \in Frame /\ Tail(wire) \in Seq(Frame)
  BY DEF TypeOK, ReadFrame
<1>2. Head(wire) # Closed BY <1>1 DEF WayInv, NoneEnds
<1>3. CASE window = "listening"
  <2>1. events' = Append(events, Head(wire)) /\ wire' = Tail(wire)
    BY <1>3 DEF ReadFrame, Emit
  <2>2. Way' = Way
    <3>1. wire = <<Head(wire)>> \o Tail(wire) BY <1>1
    <3>2. Append(events, Head(wire)) = events \o <<Head(wire)>> BY <1>1, AppendIsConcat
    <3>3. <<Head(wire)>> \in Seq(Frame) BY <1>1
    <3>4. (events \o <<Head(wire)>>) \o Tail(wire) = events \o (<<Head(wire)>> \o Tail(wire))
      BY <1>1, <3>3, ConcatAssociative
    <3>5. QED BY <2>1, <3>1, <3>2, <3>4 DEF Way
  <2>3. Interrupted' <=> Interrupted
    <3>1. /\ events' \in Seq(Frame) /\ Len(events') = Len(events) + 1
          /\ \A i \in 1..Len(events) : events'[i] = events[i]
          /\ events'[Len(events) + 1] = Head(wire)
      BY <1>1, <2>1
    <3>2. Len(events) \in Nat /\ DOMAIN events = 1..Len(events)
          /\ DOMAIN events' = 1..Len(events')
      BY <1>1, <3>1
    <3>3. ASSUME NEW i \in DOMAIN events', events'[i] = Closed
          PROVE  i \in DOMAIN events /\ events[i] = Closed
      <4>1. i # Len(events) + 1 BY <1>2, <3>1, <3>3
      <4>2. i \in 1..Len(events) BY <3>1, <3>2, <4>1
      <4>3. QED BY <3>1, <3>2, <3>3, <4>2
    <3>4. ASSUME NEW i \in DOMAIN events, events[i] = Closed
          PROVE  i \in DOMAIN events' /\ events'[i] = Closed
      BY <3>1, <3>2, <3>4
    <3>5. QED BY <3>3, <3>4 DEF Interrupted
  <2>4. InStep' <=> InStep BY <2>3 DEF InStep, Live, ReadFrame
  <2>5. QED BY <1>3, <2>2, <2>4, InStepBoolean
<1>4. CASE window # "listening"
  <2>1. events = <<>> /\ ~synced BY <1>4 DEF WayInv, HearsNothing
  <2>2. ~InStep /\ ~InStep' BY <2>1 DEF InStep, ReadFrame
  <2>3. Way = wire /\ Way' = Tail(wire)
    <3>1. events' = <<>> /\ wire' = Tail(wire) BY <1>4, <2>1 DEF ReadFrame, Emit
    <3>2. QED BY <1>1, <2>1, <3>1, ConcatEmptySeq DEF Way
  <2>4. QED BY <1>1, <1>4, <2>2, <2>3, InStepBoolean
<1>5. QED BY <1>3, <1>4

LEMMA ReadKeeps ==
  ASSUME TypeOK, WayInv, ReadFrame PROVE WayInv'
<1>1. UNCHANGED <<table, announced, conn, window, view, synced>> BY DEF ReadFrame, server
<1>2. wire \in Seq(Frame) /\ wire # <<>> /\ wire' = Tail(wire) BY DEF ReadFrame, TypeOK
<1>3. Announced' BY <1>1 DEF WayInv, Announced
<1>4. HearsNothing' BY <1>1 DEF WayInv, HearsNothing, ReadFrame, Emit
<1>5. NoneEnds' BY <1>2 DEF WayInv, NoneEnds
<1>6. CutOff' BY <1>1, <1>2 DEF WayInv, CutOff
<1>7. CASE window = "listening"
  <2>1. Way' = Way /\ InStep' = InStep BY <1>7, ReadPromises
  <2>2. FirstThingsFirst' /\ PromisesKept'
    BY <1>1, <2>1 DEF WayInv, FirstThingsFirst, PromisesKept, Live
  <2>3. QED BY <1>3, <1>4, <1>5, <1>6, <2>2 DEF WayInv
<1>8. CASE window # "listening"
  <2>1. InStep = FALSE /\ InStep' = FALSE /\ Way # <<>> /\ Way' = Tail(Way)
    BY <1>8, ReadPromises
  <2>2. Way \in Seq(Frame) /\ Len(Tail(Way)) = Len(Way) - 1 /\ Len(Way) \in Nat \ {0}
    BY <2>1, Queues
  <2>3. Promised(FALSE, Tail(Way), Len(Way) - 1) => Promised(FALSE, Way, Len(Way))
    <3>1. Promised(FALSE, Tail(Way), Len(Way) - 1)
            => Promised(Promised(FALSE, Way, 1), Tail(Way), Len(Way) - 1)
      BY DEF Promised
    <3>2. Len(Way) - 1 \in 0..(Len(Way) - 1) /\ (Len(Way) - 1) + 1 = Len(Way) BY <2>2
    <3>3. QED BY <2>1, <2>2, <3>1, <3>2, PromisedTail
  <2>4. FirstThingsFirst'
    BY <1>1, <2>1, <2>2, <2>3 DEF WayInv, FirstThingsFirst, Live
  <2>5. PromisesKept'
    <3>1. Live => Kept(FALSE, view, Way, table) BY <2>1 DEF WayInv, PromisesKept
    <3>2. Live => Kept(FALSE, view, Tail(Way), table)
      BY <2>1, <2>2, <3>1, KeptSkip DEF TypeOK
    <3>3. QED BY <1>1, <2>1, <3>2 DEF PromisesKept, Live
  <2>6. QED BY <1>3, <1>4, <1>5, <1>6, <2>4, <2>5 DEF WayInv
<1>9. QED BY <1>7, <1>8

\* ... and the window sees it.
LEMMA SeesPromises ==
  ASSUME TypeOK, WayInv, OnEvent
  PROVE  /\ Way # <<>> /\ Way' = Tail(Way) /\ view' = After(view, Way[1])
         /\ Live => InStep' = Promised(InStep, Way, 1)
<1> DEFINE m == Head(events)
<1>1. /\ events \in Seq(Frame) /\ wire \in Seq(Frame) /\ events # <<>>
      /\ Len(events) \in Nat \ {0} /\ Len(wire) \in Nat
  BY DEF TypeOK, OnEvent
<1>2. /\ m = events[1] /\ m \in Frame
      /\ Len(Tail(events)) = Len(events) - 1
      /\ \A i \in 1..(Len(events) - 1) : Tail(events)[i] = events[i + 1]
  BY <1>1
<1>3. events' = Tail(events) /\ wire' = wire /\ Tail(events) \in Seq(Frame)
  BY <1>1 DEF OnEvent
<1>4. /\ Way \in Seq(Frame) /\ Len(Way) = Len(events) + Len(wire) /\ Way # <<>>
      /\ \A i \in 1..Len(events) : Way[i] = events[i]
      /\ \A i \in 1..Len(wire) : Way[Len(events) + i] = wire[i]
  BY <1>1 DEF Way
<1>5. Way' = Tail(Way)
  <2>1. <<m>> \in Seq(Frame) /\ events = <<m>> \o Tail(events) BY <1>1, <1>2
  <2>2. Way = <<m>> \o (Tail(events) \o wire)
    BY <1>1, <1>3, <2>1, ConcatAssociative DEF Way
  <2>3. Tail(events) \o wire \in Seq(Frame) BY <1>1, <1>3
  <2>4. Tail(<<m>> \o (Tail(events) \o wire)) = Tail(events) \o wire BY <1>2, <2>3
  <2>5. QED BY <1>3, <2>2, <2>4 DEF Way
<1>6. Way[1] = m BY <1>1, <1>2, <1>4
<1>7. view' = After(view, Way[1]) BY <1>6 DEF OnEvent
<1> HIDE DEF m
<1>8. Interrupted <=> m = Closed \/ Interrupted'
  <2>1. ASSUME NEW i \in DOMAIN events, events[i] = Closed, i # 1
        PROVE  i - 1 \in DOMAIN Tail(events) /\ Tail(events)[i - 1] = Closed
    BY <1>1, <1>2, <1>3, <2>1
  <2>2. ASSUME NEW i \in DOMAIN Tail(events), Tail(events)[i] = Closed
        PROVE  i + 1 \in DOMAIN events /\ events[i + 1] = Closed
    BY <1>1, <1>2, <1>3, <2>2
  <2>3. 1 \in DOMAIN events BY <1>1
  <2>4. Interrupted' <=> \E i \in DOMAIN Tail(events) : Tail(events)[i] = Closed
    BY <1>3 DEF Interrupted
  <2>5. QED BY <1>2, <2>1, <2>2, <2>3, <2>4 DEF Interrupted
<1>9. 1 \in Fills(Way) <=> m.type = "snapshot" /\ m.table # Empty /\ ~Interrupted
  <2>1. (\A j \in 1..Len(Way) : Way[j] # Closed) <=> ~Interrupted
    <3>1. ASSUME NEW j \in 1..Len(Way), Way[j] = Closed PROVE Interrupted
      <4>1. CASE j \in 1..Len(events) BY <1>1, <1>4, <3>1, <4>1 DEF Interrupted
      <4>2. CASE j \notin 1..Len(events)
        <5>1. j - Len(events) \in 1..Len(wire) /\ j = Len(events) + (j - Len(events))
          BY <1>1, <1>4, <4>2
        <5>2. wire[j - Len(events)] = Closed BY <1>4, <3>1, <5>1
        <5>3. QED BY <5>1, <5>2 DEF WayInv, NoneEnds
      <4>3. QED BY <4>1, <4>2
    <3>2. ASSUME NEW j \in DOMAIN events, events[j] = Closed
          PROVE  j \in 1..Len(Way) /\ Way[j] = Closed
      BY <1>1, <1>4, <3>2
    <3>3. QED BY <3>1, <3>2 DEF Interrupted
  <2>2. 1 \in 1..Len(Way) BY <1>1, <1>4
  <2>3. QED BY <1>6, <2>1, <2>2 DEF Fills
<1>10. ASSUME Live PROVE InStep' = Promised(InStep, Way, 1)
  <2>1. Promised(InStep, Way, 1) <=> InStep \/ 1 \in Fills(Way)
    <3>1. \A j \in Fills(Way) : j \in 1..Len(Way) BY DEF Fills
    <3>2. QED BY <1>4, <3>1 DEF Promised
  <2>2. InStep' <=> SyncedAfter(m) /\ ~Interrupted'
    BY <1>10 DEF InStep, OnEvent, Live, m
  <2>3. m.type \in {"hello", "closed", "snapshot", "diff"}
        /\ (m.type = "closed" <=> m = Closed)
    BY <1>2 DEF Frame, Closed
  <2>4. ASSUME InStep, m.type = "snapshot" PROVE m.table # Empty
    <3>1. IsViews(Views(view, Way), view, Way) BY <1>4, ViewsExist DEF TypeOK
    <3>2. 1 \in 1..Len(Way) /\ 1 \in 0..Len(Way) BY <1>1, <1>4
    <3>3. Views(view, Way)[1] = m.table BY <1>6, <2>4, <3>1, <3>2 DEF IsViews, After
    <3>4. Promised(InStep, Way, 1) BY <2>1, <2>4
    <3>5. QED BY <1>10, <3>2, <3>3, <3>4 DEF WayInv, PromisesKept, Kept
  <2>5. InStep' <=> Promised(InStep, Way, 1)
    <3>1. InStep <=> synced /\ ~Interrupted BY <1>10 DEF InStep
    <3>2. QED BY <1>8, <1>9, <2>1, <2>2, <2>3, <2>4, <3>1 DEF SyncedAfter
  <2>6. QED BY <2>5, InStepBoolean DEF Promised
<1>11. QED BY <1>4, <1>5, <1>7, <1>10

LEMMA SeesKeeps ==
  ASSUME TypeOK, WayInv, OnEvent PROVE WayInv'
<1>1. /\ UNCHANGED <<table, announced, conn, wire, window>>
      /\ events # <<>> /\ events' = Tail(events) /\ events \in Seq(Frame)
      /\ synced' = SyncedAfter(Head(events))
  BY DEF OnEvent, server, TypeOK
<1>2. Announced' /\ NoneEnds' BY <1>1 DEF WayInv, Announced, NoneEnds
<1>3. HearsNothing' BY <1>1 DEF WayInv, HearsNothing
<1>4. CutOff'
  <2> SUFFICES ASSUME conn \in {"off", "queued"}
               PROVE  \/ events' = <<>> /\ ~synced'
                      \/ events' # <<>> /\ events'[Len(events')] = Closed
    BY <1>1 DEF CutOff, WayInv
  <2>1. events[Len(events)] = Closed BY <1>1 DEF WayInv, CutOff
  <2>2. CASE Len(events) = 1
    <3>1. Head(events) = Closed /\ events' = <<>> BY <1>1, <2>1, <2>2
    <3>2. QED BY <1>1, <3>1 DEF SyncedAfter, Closed
  <2>3. CASE Len(events) # 1
    <3> HIDE <1>1
    <3>0. events \in Seq(Frame) /\ events # <<>> /\ events' = Tail(events) BY <1>1
    <3>1. Len(events) \in Nat /\ Len(events) # 0 /\ Len(events) # 1
      BY <2>3, <3>0, EmptySeq
    <3>2. events'[Len(events')] = events[Len(events)] /\ events' # <<>>
      <4>1. /\ Len(Tail(events)) = Len(events) - 1
            /\ \A i \in 1..(Len(events) - 1) : Tail(events)[i] = events[i + 1]
        BY <3>0
      <4>2. Len(events) - 1 \in 1..(Len(events) - 1) /\ (Len(events) - 1) + 1 = Len(events)
        BY <3>1
      <4>3. Tail(events) # <<>>
        <5>1. Len(Tail(events)) # 0 BY <4>1, <4>2
        <5>2. Len(<<>>) = 0 OBVIOUS
        <5>3. QED BY <5>1, <5>2, Zenon
      <4>4. Tail(events)[Len(events) - 1] = events[(Len(events) - 1) + 1] BY <4>1, <4>2
      <4>5. Tail(events)[Len(Tail(events))] = events[Len(events)] BY <4>1, <4>2, <4>4
      <4>6. QED BY <3>0, <4>3, <4>5
    <3>3. QED BY <2>1, <3>2
  <2>4. QED BY <2>2, <2>3
<1>5. Way \in Seq(Frame) /\ Way # <<>> /\ Len(Way) \in Nat \ {0}
      /\ Way' = Tail(Way) /\ Len(Way') = Len(Way) - 1
  BY Queues, SeesPromises
<1>6. FirstThingsFirst'
  <2>1. Promised(Promised(InStep, Way, 1), Tail(Way), Len(Way) - 1)
          <=> Promised(InStep, Way, Len(Way))
    <3>1. Len(Way) - 1 \in 0..(Len(Way) - 1) /\ (Len(Way) - 1) + 1 = Len(Way) BY <1>5
    <3>2. QED BY <1>5, <3>1, PromisedTail, InStepBoolean
  <2>2. QED BY <1>1, <1>5, <2>1, SeesPromises DEF WayInv, FirstThingsFirst, Live
<1>7. PromisesKept'
  <2> SUFFICES ASSUME Live PROVE Kept(InStep', view', Way', table)
    BY <1>1 DEF PromisesKept, Live
  <2>1. Kept(InStep, view, Way, table) BY DEF WayInv, PromisesKept
  <2>2. Kept(Promised(InStep, Way, 1), After(view, Way[1]), Tail(Way), table)
    BY <1>5, <2>1, KeptTail, InStepBoolean DEF TypeOK
  <2>3. QED BY <2>2, SeesPromises
<1>8. QED BY <1>2, <1>3, <1>4, <1>6, <1>7 DEF WayInv

\* The reply to getState leaves a window alone that is in step.
LEMMA StateLeaves ==
  ASSUME TypeOK, WayInv, OnState, InStep PROVE view' = view
<1>1. Kept(InStep, view, Way, table) BY DEF WayInv, PromisesKept, InStep
<1>2. Way \in Seq(Frame) /\ view \in Table BY Queues DEF TypeOK
<1>3. Views(view, Way)[0] = view BY <1>2, ViewsExist DEF IsViews
<1>4. 0 \in 0..Len(Way) /\ Promised(InStep, Way, 0) BY <1>2 DEF Promised
<1>5. view # Empty BY <1>1, <1>3, <1>4 DEF Kept
<1>6. QED BY <1>5 DEF OnState, StateFrom

LEMMA StateKeeps ==
  ASSUME TypeOK, WayInv, OnState PROVE WayInv'
<1>1. UNCHANGED <<table, announced, conn, wire, window, events, synced>>
  BY DEF OnState, server
<1>2. UNCHANGED <<Way, InStep, Live>> BY <1>1 DEF Way, InStep, Interrupted, Live
<1>3. Announced' /\ HearsNothing' /\ NoneEnds' /\ CutOff'
  BY <1>1 DEF WayInv, Announced, HearsNothing, NoneEnds, CutOff
<1>4. FirstThingsFirst' BY <1>1, <1>2 DEF WayInv, FirstThingsFirst
<1>5. PromisesKept'
  <2>1. CASE InStep BY <1>1, <1>2, <2>1, StateLeaves DEF WayInv, PromisesKept
  <2>2. CASE ~InStep
    <3>1. InStep = FALSE BY <2>2, InStepBoolean
    <3>2. Way \in Seq(Frame) /\ view \in Table /\ view' \in Table /\ table \in Table
      BY Queues DEF TypeOK, OnState, StateFrom
    <3>3. Live => Kept(FALSE, view, Way, table) BY <3>1 DEF WayInv, PromisesKept
    <3>4. Live => Kept(FALSE, view', Way, table) BY <3>2, <3>3, KeptBase
    <3>5. QED BY <1>1, <1>2, <3>1, <3>4 DEF PromisesKept
  <2>3. QED BY <2>1, <2>2
<1>6. QED BY <1>3, <1>4, <1>5 DEF WayInv

\* The GUI's end of a connection, and the daemon's.
LEMMA EndKeeps ==
  ASSUME TypeOK, WayInv, ReadEnd PROVE WayInv'
<1>1. /\ UNCHANGED <<table, announced, wire, window, view, synced>>
      /\ conn' = "off" /\ wire = <<>>
  BY DEF ReadEnd, server
<1>2. Announced' /\ NoneEnds' BY <1>1 DEF WayInv, Announced, NoneEnds
<1>3. HearsNothing' BY <1>1 DEF WayInv, HearsNothing, ReadEnd, Emit
<1>4. CutOff'
  <2>1. CASE window = "listening"
    <3>1. events' = Append(events, Closed) /\ events \in Seq(Frame) BY <2>1 DEF ReadEnd, Emit, TypeOK
    <3>2. events' # <<>> /\ events'[Len(events')] = Closed BY <3>1
    <3>3. QED BY <1>1, <3>2 DEF CutOff
  <2>2. CASE window # "listening"
    <3>1. events = <<>> /\ ~synced BY <2>2 DEF WayInv, HearsNothing
    <3>2. events' = <<>> /\ ~synced' BY <1>1, <2>2, <3>1 DEF ReadEnd, Emit
    <3>3. QED BY <1>1, <3>2 DEF CutOff
  <2>3. QED BY <2>1, <2>2
<1>5. QED BY <1>1, <1>2, <1>3, <1>4 DEF WayInv, FirstThingsFirst, PromisesKept, Live

LEMMA RestartKeeps ==
  ASSUME TypeOK, WayInv, Restart PROVE WayInv'
<1>1. /\ UNCHANGED <<window, events, view, synced>>
      /\ table' = Empty /\ ~announced' /\ ~Live'
      /\ conn' \in {"off", "queued"} => conn = "off"
  BY DEF Restart, Live
<1>2. PICK k \in 0..Len(wire) : wire' = SubSeq(wire, 1, k) BY DEF Restart
<1>3. wire \in Seq(Frame) BY DEF TypeOK
<1>4. Announced' /\ HearsNothing' BY <1>1 DEF WayInv, Announced, HearsNothing
<1>5. NoneEnds' BY <1>2, <1>3 DEF WayInv, NoneEnds
<1>6. CutOff'
  <2> SUFFICES ASSUME conn = "off" PROVE wire' = <<>> BY <1>1 DEF WayInv, CutOff
  <2>1. wire = <<>> BY DEF WayInv, CutOff
  <2>2. k = 0 BY <2>1
  <2>3. QED BY <1>2, <1>3, <2>2
<1>7. QED BY <1>1, <1>4, <1>5, <1>6 DEF WayInv, FirstThingsFirst, PromisesKept

\* A window opens, a connection is asked for.
Aside ==
  /\ conn' = conn \/ (conn = "off" /\ conn' = "queued")
  /\ window' = window \/ window' = "listening" \/ window = "closed"
  /\ UNCHANGED <<table, announced, wire, events, view, synced>>

LEMMA AsideSteps ==
  ASSUME Connect \/ ServeState \/ Start \/ Listen \/ UNCHANGED vars PROVE Aside
<1>1. CASE Connect BY <1>1 DEF Connect, server, Aside
<1>2. CASE ServeState BY <1>2 DEF ServeState, server, Aside
<1>3. CASE Start BY <1>3 DEF Start, server, Aside
<1>4. CASE Listen BY <1>4 DEF Listen, server, Aside
<1>5. CASE UNCHANGED vars BY <1>5 DEF vars, Aside
<1>6. QED BY <1>1, <1>2, <1>3, <1>4, <1>5

LEMMA AsideKeeps ==
  ASSUME TypeOK, WayInv, Aside PROVE WayInv'
<1>1. UNCHANGED <<Way, InStep, Live>> BY DEF Aside, Way, InStep, Interrupted, Live
<1>2. Announced' /\ NoneEnds' BY DEF Aside, WayInv, Announced, NoneEnds
<1>3. HearsNothing' BY DEF Aside, WayInv, HearsNothing
<1>4. CutOff' BY DEF Aside, WayInv, CutOff
<1>5. FirstThingsFirst' /\ PromisesKept'
  BY <1>1 DEF Aside, WayInv, FirstThingsFirst, PromisesKept
<1>6. QED BY <1>2, <1>3, <1>4, <1>5 DEF WayInv

LEMMA WayInductive == TypeOK /\ WayInv /\ [Next]_vars => WayInv'
<1> SUFFICES ASSUME TypeOK, WayInv, [Next]_vars PROVE WayInv' OBVIOUS
<1>1. CASE SendHello \/ HandleHello \/ Request \/ \E t \in Scan : Poll(t)
  BY <1>1, ServerSteps, TellsKeeps, SilentKeeps DEF WayInv
<1>2. CASE Register BY <1>2, RegisterKeeps
<1>3. CASE ReadFrame BY <1>3, ReadKeeps
<1>4. CASE ReadEnd BY <1>4, EndKeeps
<1>5. CASE OnEvent BY <1>5, SeesKeeps
<1>6. CASE OnState BY <1>6, StateKeeps
<1>7. CASE Restart BY <1>7, RestartKeeps
<1>8. CASE Connect \/ ServeState \/ Start \/ Listen \/ UNCHANGED vars
  BY <1>8, AsideSteps, AsideKeeps
<1>9. QED
  BY <1>1, <1>2, <1>3, <1>4, <1>5, <1>6, <1>7, <1>8 DEF Next, Server, Gui

\* A window in step shows a table of a poll, and every snapshot and difference on
\* its way leads it to another, the daemon's in the end: main.rs announces what
\* it has put in its table, and the GUI drops nothing and adds nothing.
THEOREM WayCorrect == Spec => []WayInv
<1>1. Init => WayInv
  <2> SUFFICES ASSUME Init PROVE WayInv OBVIOUS
  <2>1. ~Live BY DEF Init, Live
  <2>2. QED
    BY <2>1 DEF Init, WayInv, Announced, HearsNothing, NoneEnds, CutOff, FirstThingsFirst,
                PromisesKept
<1>2. QED BY <1>1, TypeCorrect, WayInductive, PTL DEF Spec

\* A window in step that has nothing on its way shows what the daemon's table
\* shows: no snapshot overtakes a difference, and no reply undoes one.
THEOREM NothingLost == Spec => [](InStep /\ Way = <<>> => Looks(view) = Looks(table))
<1>1. TypeOK /\ WayInv => (InStep /\ Way = <<>> => Looks(view) = Looks(table))
  <2> SUFFICES ASSUME TypeOK, WayInv, InStep, Way = <<>>
               PROVE  Looks(view) = Looks(table)
    OBVIOUS
  <2>1. Kept(InStep, view, Way, table) BY DEF WayInv, PromisesKept, InStep
  <2>2. Len(Way) = 0 /\ Way \in Seq(Frame) BY Queues
  <2>3. Views(view, Way)[0] = view BY <2>2, ViewsExist DEF IsViews, TypeOK
  <2>4. QED BY <2>1, <2>2, <2>3 DEF Kept, Promised
<1>2. QED BY <1>1, TypeCorrect, WayCorrect, PTL
----------------------------------------------------------------------------
(* IpcStream implements Mirror.                                            *)

Seen  == IF InStep THEN Looks(view) ELSE None
Hears == Live /\ window = "listening"

\* What the steps of Mirror are here.
LEMMA CopyPublish ==
  ASSUME Looks(table)' \in Looked, Seen' = Seen,
         Ahead' = IF Copy!Subscribed THEN Append(Ahead, Looks(table)') ELSE <<>>
  PROVE  Copy!Publish
BY DEF Copy!Publish, Looked, Seen

LEMMA CopySubscribe ==
  ASSUME ~Copy!Subscribed, Looks(table)' \in Looked, Seen' = Seen,
         Ahead' \in Seq(Looked), Ahead' # <<>>, Last(Ahead') = Looks(table)'
  PROVE  Copy!Subscribe
BY DEF Copy!Subscribe, Looked, Seen, Last, Copy!Last

LEMMA CopyShow ==
  ASSUME Ahead # <<>>, Seen' = Head(Ahead), Ahead' = Tail(Ahead), UNCHANGED Looks(table)
  PROVE  Copy!Show
BY DEF Copy!Show, Seen

LEMMA CopyLose ==
  ASSUME Looks(table)' \in Looked, Ahead' = <<>>, Seen' = None
  PROVE  Copy!Lose
BY DEF Copy!Lose, Looked, Seen

LEMMA CopyStutters ==
  ASSUME UNCHANGED Looks(table), Ahead' = Ahead, Seen' = Seen
  PROVE  UNCHANGED Copy!vars
BY DEF Copy!vars, Seen

\* A window is subscribed when it is promised something.
LEMMA SubscribedIs ==
  ASSUME TypeOK, WayInv
  PROVE  Copy!Subscribed <=> Hears /\ Promised(InStep, Way, Len(Way))
<1>1. Way \in Seq(Frame) /\ view \in Table BY Queues DEF TypeOK
<1>2. InStep => Hears BY DEF InStep, Hears, WayInv, HearsNothing
<1>3. Copy!Subscribed <=> Seen # None \/ Ahead # <<>> BY DEF Copy!Subscribed, Seen
<1>4. Seen # None <=> InStep BY <1>1, LooksType DEF Seen
<1>5. CASE InStep BY <1>2, <1>3, <1>4, <1>5 DEF Promised
<1>6. CASE ~InStep /\ Hears /\ Promised(InStep, Way, Len(Way))
  <2>1. Way # <<>> BY <1>1, <1>6, PromisedSome DEF Promised
  <2>2. Ahead # <<>> BY <1>1, <1>6, <2>1, PromisesEnd, InStepBoolean DEF Ahead, Hears
  <2>3. QED BY <1>3, <1>6, <2>2
<1>7. CASE ~InStep /\ ~(Hears /\ Promised(InStep, Way, Len(Way)))
  <2>1. Ahead = <<>> BY <1>7, NoPromises DEF Ahead, Hears
  <2>2. QED BY <1>3, <1>4, <1>7, <2>1
<1>8. QED BY <1>5, <1>6, <1>7

LEMMA TellsMirrors ==
  ASSUME TypeOK, WayInv, NEW m \in Frame, Tells(m)
  PROVE  Copy!Publish \/ Copy!Subscribe
<1> DEFINE s == Append(Way, m)
           n == Len(Way) + 1
<1>1. /\ Way \in Seq(Frame) /\ Len(Way) \in Nat /\ view \in Table /\ InStep \in BOOLEAN
      /\ s \in Seq(Frame) /\ Len(s) = n /\ m # Closed
  BY Queues, TellsPromises, InStepBoolean DEF TypeOK
<1>2. Way' = s /\ InStep' = InStep BY TellsLast
<1>3. Seen' = Seen BY <1>2 DEF Seen, Tells
<1>4. Hears' <=> Hears BY DEF Hears, Tells
<1>5. Looks(table)' \in Looked BY TellsPromises, LooksType DEF Looked
<1>6. Promised(InStep, s, n) => Looks(Views(view, s)[n]) = Looks(table)'
  <2>1. Kept(InStep', view', Way', table')
    BY TellsKeeps DEF WayInv, PromisesKept, Tells
  <2>2. Kept(InStep, view, s, table') BY <1>2, <2>1 DEF Tells
  <2>3. QED BY <1>1, <2>2 DEF Kept
<1>7. Hears => Ahead' = Promises(InStep, view, s) /\ Ahead = Promises(InStep, view, Way)
  BY <1>2, <1>4 DEF Ahead, Hears, Tells
<1>8. Copy!Subscribed <=> Hears /\ Promised(InStep, Way, Len(Way)) BY SubscribedIs
<1>9. Promised(InStep, Way, Len(Way)) => Promised(InStep, s, n) BY <1>1, PromisedAppend
<1> HIDE DEF s, n
<1>10. CASE Hears /\ Promised(InStep, Way, Len(Way))
  <2>1. Promises(InStep, view, s) = Append(Promises(InStep, view, Way), Looks(Views(view, s)[n]))
    BY <1>1, <1>10, PromisesAppend DEF s, n
  <2>2. Ahead' = Append(Ahead, Looks(table)') BY <1>6, <1>7, <1>9, <1>10, <2>1
  <2>3. QED BY <1>3, <1>5, <1>8, <1>10, <2>2, CopyPublish
<1>11. CASE Hears /\ ~Promised(InStep, Way, Len(Way)) /\ Promised(InStep, s, n)
  <2>1. /\ Promises(InStep, view, s) \in Seq(Looked) /\ Promises(InStep, view, s) # <<>>
        /\ Last(Promises(InStep, view, s)) = Looks(Views(view, s)[n])
    BY <1>1, <1>11, PromisesFirst DEF s, n
  <2>2. QED BY <1>3, <1>5, <1>6, <1>7, <1>8, <1>11, <2>1, CopySubscribe
<1>12. CASE Hears /\ ~Promised(InStep, s, n)
  <2>1. Ahead' = <<>> BY <1>1, <1>7, <1>12, NoPromises
  <2>2. QED BY <1>3, <1>5, <1>8, <1>9, <1>12, <2>1, CopyPublish
<1>13. CASE ~Hears
  <2>1. Ahead' = <<>> BY <1>4, <1>13 DEF Ahead, Hears
  <2>2. QED BY <1>3, <1>5, <1>8, <1>13, <2>1, CopyPublish
<1>14. QED BY <1>10, <1>11, <1>12, <1>13

LEMMA SilentMirrors ==
  ASSUME TypeOK, WayInv, Silent PROVE Copy!Publish \/ UNCHANGED Copy!vars
<1>1. UNCHANGED <<Way, InStep, Live, Hears>>
  BY DEF Silent, Way, InStep, Interrupted, Live, Hears
<1>2. Seen' = Seen /\ Ahead' = Ahead BY <1>1 DEF Silent, Seen, Ahead
<1>3. CASE Live BY <1>2, <1>3, CopyStutters DEF Silent
<1>4. CASE ~Live
  <2>1. Ahead' = <<>> BY <1>2, <1>4 DEF Ahead
  <2>2. ~Copy!Subscribed BY <1>4, SubscribedIs DEF Hears
  <2>3. table' \in Table BY TableFacts DEF Silent, TypeOK, server
  <2>4. Looks(table)' \in Looked BY <2>3, LooksType DEF Looked
  <2>5. QED BY <1>2, <2>1, <2>2, <2>4, CopyPublish
<1>5. QED BY <1>3, <1>4

\* Steps of which neither the window nor the daemon's table shows anything.
LEMMA UnseenMirrors ==
  ASSUME Way' = Way, InStep' = InStep, Hears' <=> Hears, UNCHANGED <<table, view>>
  PROVE  UNCHANGED Copy!vars
<1>1. Seen' = Seen BY DEF Seen
<1>2. Ahead' = Ahead BY DEF Ahead, Hears
<1>3. UNCHANGED Looks(table) OBVIOUS
<1>4. QED BY <1>1, <1>2, <1>3, CopyStutters

LEMMA RegisterMirrors ==
  ASSUME TypeOK, WayInv, Register PROVE UNCHANGED Copy!vars
<1>1. UNCHANGED table BY DEF Register, server
<1>2. Seen' = Seen BY RegisterPromises DEF Seen
<1>3. Ahead = <<>> BY DEF Ahead, Register, Live
<1>4. Ahead' = <<>>
  <2>1. InStep' = FALSE BY RegisterPromises, InStepBoolean
  <2>2. Len(Way) \in 0..Len(Way) BY Queues
  <2>3. Promises(InStep', view', Way') = <<>>
    BY <2>1, <2>2, RegisterPromises, NoPromises
  <2>4. QED BY <2>3 DEF Ahead
<1>5. QED BY <1>1, <1>2, <1>3, <1>4, CopyStutters

LEMMA ReadMirrors ==
  ASSUME TypeOK, WayInv, ReadFrame PROVE UNCHANGED Copy!vars
<1>1. UNCHANGED <<table, view, conn, window>> BY DEF ReadFrame, server
<1>2. Hears' <=> Hears BY <1>1 DEF Hears, Live
<1>3. CASE window = "listening" BY <1>1, <1>2, <1>3, ReadPromises, UnseenMirrors
<1>4. CASE window # "listening"
  <2>1. Seen' = Seen BY <1>4, ReadPromises DEF Seen
  <2>2. Ahead' = Ahead BY <1>1, <1>4 DEF Ahead
  <2>3. QED BY <1>1, <2>1, <2>2, CopyStutters
<1>5. QED BY <1>3, <1>4

LEMMA SeesMirrors ==
  ASSUME TypeOK, WayInv, OnEvent PROVE Copy!Show \/ UNCHANGED Copy!vars
<1>1. UNCHANGED <<table, conn, window>> BY DEF OnEvent, server
<1>2. /\ Way # <<>> /\ Way' = Tail(Way) /\ view' = After(view, Way[1])
      /\ Way \in Seq(Frame) /\ view \in Table /\ InStep \in BOOLEAN
  BY SeesPromises, Queues, InStepBoolean DEF TypeOK
<1>3. Hears' <=> Hears BY <1>1 DEF Hears, Live
<1>4. InStep \/ InStep' => Hears
  BY <1>1, SeesPromises DEF InStep, Hears, Live, WayInv, HearsNothing, OnEvent
<1>5. CASE ~Hears
  <2>1. Seen = None /\ Seen' = None BY <1>4, <1>5 DEF Seen
  <2>2. Ahead = <<>> /\ Ahead' = <<>> BY <1>3, <1>5 DEF Ahead, Hears
  <2>3. QED BY <1>1, <2>1, <2>2, CopyStutters
<1>6. CASE Hears
  <2>1. InStep' = Promised(InStep, Way, 1) BY <1>6, SeesPromises DEF Hears
  <2>2. Ahead = Promises(InStep, view, Way) BY <1>6 DEF Ahead, Hears
  <2>3. Ahead' = Promises(Promised(InStep, Way, 1), After(view, Way[1]), Tail(Way))
    BY <1>2, <1>3, <1>6, <2>1 DEF Ahead, Hears
  <2>4. CASE Promised(InStep, Way, 1)
    <3>1. Ahead # <<>> /\ Head(Ahead) = Looks(After(view, Way[1])) /\ Ahead' = Tail(Ahead)
      BY <1>2, <2>2, <2>3, <2>4, PromisesTail
    <3>2. Seen' = Head(Ahead) BY <1>2, <2>1, <2>4, <3>1 DEF Seen
    <3>3. QED BY <1>1, <3>1, <3>2, CopyShow
  <2>5. CASE ~Promised(InStep, Way, 1)
    <3>1. Ahead' = Ahead BY <1>2, <2>2, <2>3, <2>5, PromisesTail
    <3>2. ~InStep /\ ~InStep' BY <2>1, <2>5 DEF Promised
    <3>3. Seen' = Seen BY <3>2 DEF Seen
    <3>4. QED BY <1>1, <3>1, <3>3, CopyStutters
  <2>6. QED BY <2>4, <2>5
<1>7. QED BY <1>5, <1>6

LEMMA StateMirrors ==
  ASSUME TypeOK, WayInv, OnState PROVE UNCHANGED Copy!vars
<1>1. UNCHANGED <<table, conn, wire, window, events, synced>> BY DEF OnState, server
<1>2. UNCHANGED <<Way, InStep, Live, Hears>>
  BY <1>1 DEF Way, InStep, Interrupted, Live, Hears
<1>3. CASE InStep BY <1>1, <1>2, <1>3, StateLeaves, UnseenMirrors
<1>4. CASE ~InStep
  <2>1. Seen' = Seen BY <1>2, <1>4 DEF Seen
  <2>2. Way \in Seq(Frame) /\ view \in Table /\ view' \in Table
    BY Queues DEF TypeOK, OnState, StateFrom
  <2>3. InStep = FALSE BY <1>4, InStepBoolean
  <2>4. Promises(InStep', view', Way') = Promises(InStep, view, Way)
    BY <1>2, <2>2, <2>3, PromisesBase
  <2>5. Ahead' = Ahead BY <1>1, <1>2, <2>4 DEF Ahead
  <2>6. QED BY <1>1, <2>1, <2>5, CopyStutters
<1>5. QED BY <1>3, <1>4

LEMMA EndMirrors ==
  ASSUME TypeOK, WayInv, ReadEnd PROVE UNCHANGED Copy!vars
<1>1. ~Live /\ ~Live' /\ UNCHANGED table BY DEF ReadEnd, Live, server
<1>2. Seen = None /\ Seen' = None BY <1>1 DEF Seen, InStep
<1>3. Ahead = <<>> /\ Ahead' = <<>> BY <1>1 DEF Ahead
<1>4. QED BY <1>1, <1>2, <1>3, CopyStutters

LEMMA RestartMirrors ==
  ASSUME TypeOK, WayInv, Restart PROVE Copy!Lose
<1>1. ~Live' /\ table' = Empty BY DEF Restart, Live
<1>2. Seen' = None BY <1>1 DEF Seen, InStep
<1>3. Ahead' = <<>> BY <1>1 DEF Ahead
<1>4. Looks(table)' \in Looked BY <1>1, TableFacts, LooksType DEF Looked
<1>5. QED BY <1>2, <1>3, <1>4, CopyLose

\* A window that listens hears of what the connection thread has not read yet.
LEMMA AsideMirrors ==
  ASSUME TypeOK, WayInv, Aside PROVE Copy!Subscribe \/ UNCHANGED Copy!vars
<1>1. UNCHANGED <<Way, InStep, Live, table, view>>
  BY DEF Aside, Way, InStep, Interrupted, Live
<1>2. CASE Hears' <=> Hears BY <1>1, <1>2, UnseenMirrors
<1>3. CASE Hears /\ ~Hears' BY <1>1, <1>3 DEF Aside, Hears
<1>4. CASE ~Hears /\ Hears'
  <2>1. Seen' = Seen BY <1>1 DEF Seen
  <2>2. Ahead = <<>> BY <1>4 DEF Ahead, Hears
  <2>3. Ahead' = Promises(InStep, view, Way) BY <1>1, <1>4 DEF Ahead, Hears
  <2>4. /\ Way \in Seq(Frame) /\ view \in Table /\ InStep = FALSE
        /\ table \in Table /\ Live
    <3>1. Live BY <1>1, <1>4 DEF Hears
    <3>2. window # "listening" BY <1>4, <3>1 DEF Hears
    <3>3. ~InStep BY <3>2 DEF WayInv, HearsNothing, InStep
    <3>4. QED BY <3>1, <3>3, Queues, InStepBoolean DEF TypeOK
  <2>5. CASE ~Promised(FALSE, Way, Len(Way))
    <3>1. Ahead' = <<>> BY <2>3, <2>4, <2>5, NoPromises
    <3>2. QED BY <1>1, <2>1, <2>2, <3>1, CopyStutters
  <2>6. CASE Promised(FALSE, Way, Len(Way))
    <3>1. Way # <<>> BY <2>4, <2>6, PromisedSome
    <3>2. /\ Ahead' \in Seq(Looked) /\ Ahead' # <<>>
          /\ Last(Ahead') = Looks(Views(view, Way)[Len(Way)])
      BY <2>3, <2>4, <2>6, <3>1, PromisesEnd
    <3>3. Looks(Views(view, Way)[Len(Way)]) = Looks(table)
      BY <2>4, <2>6 DEF WayInv, PromisesKept, Kept
    <3>4. Looks(table)' = Looks(table) /\ Looks(table) \in Looked
      BY <1>1, <2>4, LooksType DEF Looked
    <3>5. ~Copy!Subscribed BY <1>4, SubscribedIs
    <3>6. QED BY <2>1, <3>2, <3>3, <3>4, <3>5, CopySubscribe
  <2>7. QED BY <2>5, <2>6
<1>5. QED BY <1>2, <1>3, <1>4

LEMMA StepMirrors == TypeOK /\ WayInv /\ [Next]_vars => [Copy!Next]_(Copy!vars)
<1> SUFFICES ASSUME TypeOK, WayInv, [Next]_vars
             PROVE  Copy!Next \/ UNCHANGED Copy!vars
  OBVIOUS
<1>1. CASE SendHello \/ HandleHello \/ Request \/ \E t \in Scan : Poll(t)
  BY <1>1, ServerSteps, TellsMirrors, SilentMirrors DEF WayInv, Copy!Next
<1>2. CASE Register BY <1>2, RegisterMirrors
<1>3. CASE ReadFrame BY <1>3, ReadMirrors
<1>4. CASE ReadEnd BY <1>4, EndMirrors
<1>5. CASE OnEvent BY <1>5, SeesMirrors DEF Copy!Next
<1>6. CASE OnState BY <1>6, StateMirrors
<1>7. CASE Restart BY <1>7, RestartMirrors DEF Copy!Next
<1>8. CASE Connect \/ ServeState \/ Start \/ Listen \/ UNCHANGED vars
  BY <1>8, AsideSteps, AsideMirrors DEF Copy!Next
<1>9. QED
  BY <1>1, <1>2, <1>3, <1>4, <1>5, <1>6, <1>7, <1>8 DEF Next, Server, Gui

\* Once in step, a window shows the tables that the daemon published, whole and
\* in order, until the daemon goes away: main.rs, ipc.rs, the connection thread
\* of the GUI and its store together keep what common/src/lib.rs promises.
THEOREM StreamMirrors == Spec => Mirrors
<1>1. Init => Copy!Init
  <2> SUFFICES ASSUME Init PROVE Copy!Init OBVIOUS
  <2>1. ~Live BY DEF Init, Live
  <2>2. Ahead = <<>> /\ ~InStep BY <2>1 DEF Ahead, InStep
  <2>3. Looks(table) \in Looked BY TableFacts, LooksType DEF Init, Looked
  <2>4. QED BY <2>2, <2>3 DEF Copy!Init, Looked
<1>2. QED BY <1>1, TypeCorrect, WayCorrect, StepMirrors, PTL DEF Spec, Mirrors, Copy!Spec
============================================================================
