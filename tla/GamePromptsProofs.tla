-------------------------- MODULE GamePromptsProofs --------------------------
(***************************************************************************)
(* Proofs about GamePrompts, for any number of processes, names, programs  *)
(* and rules, and under every fault: type correctness, and what the daemon *)
(* promises about its confirmation prompts.                                *)
(***************************************************************************)
EXTENDS GamePrompts, FiniteSetTheorems, SequenceTheorems, TLAPS

----------------------------------------------------------------------------
(* Type correctness.                                                       *)

\* The rule in force for a name is one of its rules.
LEMMA RuleForIsARule ==
  ASSUME config \in [Key -> Rule \cup {Absent}], NEW n \in Name, HasRule(n)
  PROVE  RuleFor(n) \in Rule /\ RuleFor(n).match = n
<1> DEFINE last(k) == \A j \in RulesFor(n) : KeyOrder[j] =< KeyOrder[k]
<1>1. RulesFor(n) \in SUBSET Key /\ RulesFor(n) # {} BY DEF RulesFor, HasRule
<1>2. \E k \in RulesFor(n) : last(k) BY <1>1, KeyAssumption
<1>3. (CHOOSE k \in RulesFor(n) : last(k)) \in RulesFor(n) BY <1>2
<1>4. QED BY <1>3 DEF RuleFor, RulesFor

\* Every decision is a target, or nothing.
LEMMA ResolvedType ==
  ASSUME config \in [Key -> Rule \cup {Absent}], NEW e, e.name \in Name, NEW g
  PROVE  Resolved(e, g) \in Target \cup {Absent}
<1>1. HasRule(e.name) => RuleFor(e.name).target \in Target
  BY RuleForIsARule DEF Rule
<1>2. AutoGame \in Target BY LevelAssumption
<1>3. QED BY <1>1, <1>2 DEF Resolved

\* One frame for each process that is asked about.
LEMMA FramesForType ==
  ASSUME NEW F \in SUBSET Pid, NEW f \in FramesFor(F)
  PROVE  /\ f \in Seq(Name)
         /\ \A i \in DOMAIN f : \E p \in F : cur[p].name = f[i]
<1>1. IsFiniteSet(F) /\ Cardinality(F) \in Nat
  BY PidAssumption, FS_Subset, FS_CardinalityType
<1>2. f \in [1..Cardinality(F) -> Name] BY DEF FramesFor
<1>3. f \in Seq(Name) BY <1>1, <1>2, IsASeq
<1>4. ASSUME NEW i \in DOMAIN f PROVE \E p \in F : cur[p].name = f[i]
  <2> DEFINE I == {j \in DOMAIN f : f[j] = f[i]}
             P == {p \in F : cur[p].name = f[i]}
  <2>1. Cardinality(I) = Cardinality(P) BY <1>2 DEF FramesFor
  <2>2. IsFiniteSet(1..Cardinality(F)) BY <1>1, FS_Interval
  <2>3. IsFiniteSet(I) BY <1>2, <2>2, FS_Subset
  <2>4. i \in I OBVIOUS
  <2>5. Cardinality(I) # 0 BY <2>3, <2>4, FS_EmptySet
  <2>6. P # {} BY <2>1, <2>5, FS_EmptySet
  <2>7. QED BY <2>6
<1>5. QED BY <1>3, <1>4

\* The poll keeps the types.
LEMMA PollTypes ==
  ASSUME TypeOK, Poll
  PROVE  TypeOK'
<1> USE AbsentAssumption DEF TypeOK, Scanned, Current, Row, memory, gui, history
<1>1. CASE BeginPoll
  <2>1. \A p \in Pid : proc[p] # Absent =>
          [name |-> proc[p].name, trait |-> proc[p].trait,
           young |-> proc[p].young, nice |-> prio[p].nice]
            \in Scanned
    BY DEF Process, Scanned, Prio
  <2>2. QED BY <1>1, <2>1 DEF BeginPoll
<1>2. ASSUME NEW p \in Pid, Visit(p) PROVE TypeOK'
  <2> DEFINE own  == scan[p].name \in Own
             game == ~own /\ (Verdict(p) = "game" \/ Listed(scan[p]))
             t    == Resolved(scan[p], game)
  <2>1. scan[p] # Absent /\ scan[p].name \in Name /\ scan[p].nice \in Level
    BY <1>2 DEF Visit
  <2>2. t \in Target \cup {Absent} BY <2>1, ResolvedType
  <2>3. t # Absent => Applied(p, t) \in Prio BY <2>2 DEF Applied, Target, Prio
  <2>4. prio' \in [Pid -> Prio] BY <1>2, <2>3 DEF Visit
  <2>5. Verdict(p) \in {"unknown", "game", "plain"} BY DEF Verdict
  <2>6. flag_cache' \in [Pid -> {"unknown", "game", "plain"}] BY <1>2, <2>5 DEF Visit
  <2>7. game \in BOOLEAN OBVIOUS
  <2>8. cur' \in [Pid -> Current \cup {Absent}]
    BY <1>2, <2>1, <2>7 DEF Visit
  <2>9. QED BY <1>2, <2>4, <2>6, <2>8 DEF Visit
<1>3. CASE EndPoll
  <2> DEFINE fresh == FreshGames(prompted \cap Kept, suppressed \cap Kept)
             asked == {cur[p].name : p \in fresh}
  <2>1. fresh \in SUBSET Pid /\ \A p \in fresh : cur[p] # Absent
    BY DEF FreshGames, Listing
  <2>2. asked \subseteq Name
    <3> HIDE DEF fresh
    <3>1. \A p \in fresh : cur[p].name \in Name BY <2>1
    <3>2. QED BY <3>1
  <2>3. frames' \in Seq(Name)
    <3>1. CASE connected
      <4>1. PICK f \in FramesFor(fresh) : frames' = frames \o f BY <1>3, <3>1 DEF EndPoll
      <4>2. QED BY <2>1, <4>1, FramesForType, ConcatProperties
    <3>2. QED BY <1>3, <3>1 DEF EndPoll
  <2>4. table' \in [Pid -> Row \cup {Absent}]
    BY <1>3 DEF EndPoll
  <2>5. flag_cache' \in [Pid -> {"unknown", "game", "plain"}] BY <1>3 DEF EndPoll
  <2>6. /\ prompted' \subseteq Name /\ suppressed' \subseteq Name
        /\ instance_games' \subseteq Name /\ pending' \subseteq Name
        /\ running' \subseteq Name
    BY <1>3, <2>2 DEF EndPoll
  <2>7. QED BY <1>3, <2>3, <2>4, <2>5, <2>6 DEF EndPoll, Nothing
<1>4. QED BY <1>1, <1>2, <1>3 DEF Poll

\* A preset is a rule.
LEMMA PresetType ==
  ASSUME NEW n \in Name, NEW l \in Level PROVE Preset(n, l) \in Rule
BY DEF Preset, Tier, Rule, Target

\* The requests keep the types.
LEMMA RequestTypes ==
  ASSUME TypeOK, HandleMsg
  PROVE  TypeOK'
<1> USE AbsentAssumption, NameAssumption, LevelAssumption DEF TypeOK, Row, memory, daemon
<1> DEFINE m == Head(inbox)
<1>1. m \in Message /\ inbox' \in Seq(Message)
  BY HeadTailProperties DEF HandleMsg
<1>2. CASE m.type = "answer" /\ Confirm(m.name, m.answer)
  <2>1. m.name \in Name BY <1>1, <1>2 DEF Message
  <2>2. /\ Preset(m.name, "game") \in Rule /\ Preset(m.name, "software") \in Rule
    BY <2>1, PresetType
  <2>3. /\ config' \in [Key -> Rule \cup {Absent}]
        /\ word' \in [Name -> Level \cup {Absent}]
    <3> HIDE DEF m
    <3>1. CASE m.answer = "not-now" BY <1>2, <3>1 DEF Confirm
    <3>2. ASSUME NEW l \in {"game", "software"}, SetPreset(m.name, l), Says(m.name, l)
          PROVE  /\ config' \in [Key -> Rule \cup {Absent}]
                 /\ word' \in [Name -> Level \cup {Absent}]
      BY <2>1, <2>2, <3>2 DEF SetPreset, Says
    <3>3. QED BY <1>2, <3>1, <3>2 DEF Confirm
  <2>4. /\ pending' \subseteq Name /\ suppressed' \subseteq Name
        /\ instance_games' \subseteq Name /\ deferred' \subseteq Name
        /\ prompted' = prompted /\ prio' = prio
    BY <1>2, <2>1 DEF Confirm, PutOff
  <2>5. UNCHANGED <<proc, pc, daemon, connected, frames, window, running>>
    BY <1>1, <1>2 DEF HandleMsg
  <2>6. QED BY <1>1, <2>3, <2>4, <2>5
<1>3. CASE m.type = "tier" /\ SetTier(m.pid, m.level)
  <2>1. m.level \in Level BY <1>1, <1>3 DEF Message
  <2>2. /\ config' \in [Key -> Rule \cup {Absent}]
        /\ word' \in [Name -> Level \cup {Absent}]
        /\ prio' \in [Pid -> Prio]
    <3>1. CASE table[m.pid] = Absent BY <1>3, <3>1 DEF SetTier
    <3>2. CASE table[m.pid] # Absent
      <4>1. m.pid \in Pid BY <1>1, <1>3 DEF Message
      <4>2. table[m.pid].name \in Name BY <3>2, <4>1
      <4>3. Preset(table[m.pid].name, m.level) \in Rule BY <2>1, <4>2, PresetType
      <4>4. AppliedNow(table[m.pid].name, m.level) \in [Pid -> Prio]
        BY <2>1 DEF AppliedNow, Prio
      <4>5. QED BY <1>3, <2>1, <3>2, <4>2, <4>3, <4>4 DEF SetTier, SetPreset, Says
    <3>3. QED BY <3>1, <3>2
  <2>3. QED BY <1>1, <1>3, <2>2 DEF HandleMsg, SetTier
<1>4. CASE m.type = "cap" /\ SetCap(m.name)
  <2>1. m.name \in Name BY <1>1, <1>4 DEF Message
  <2>2. Preset(m.name, "software") \in Rule BY <2>1, PresetType
  <2>3. /\ config' \in [Key -> Rule \cup {Absent}]
        /\ word' \in [Name -> Level \cup {Absent}]
    <3> HIDE DEF m
    <3>1. CASE config[m.name] = Absent
      <4>1. config' = [config EXCEPT ![m.name] = Preset(m.name, "software")]
        BY <1>4, <3>1 DEF SetCap, SetPreset
      <4>2. word' = [word EXCEPT ![m.name] = "software"] BY <1>4, <3>1 DEF SetCap, Says
      <4>3. QED BY <2>1, <2>2, <4>1, <4>2
    <3>2. CASE config[m.name] # Absent BY <1>4, <3>2 DEF SetCap
    <3>3. QED BY <3>1, <3>2
  <2>4. QED BY <1>1, <1>4, <2>3 DEF HandleMsg, SetCap
<1>5. QED BY <1>2, <1>3, <1>4 DEF HandleMsg

\* The GUI, its user and a restart keep the types.
LEMMA UserTypes ==
  ASSUME TypeOK, User \/ ShowPrompt
  PROVE  TypeOK'
<1> USE AbsentAssumption DEF TypeOK, Row, memory, daemon, gui
<1>1. CASE Connect BY <1>1 DEF Connect, history
<1>2. CASE Disconnect
  <2>1. inbox' \in Seq(Message)
    BY <1>2, SubSeqProperties DEF Disconnect
  <2>2. QED BY <1>2, <2>1, EmptySeq DEF Disconnect, history
<1>3. CASE Dismiss BY <1>3 DEF Dismiss, Closed, history
<1>4. CASE Restart BY <1>4, EmptySeq DEF Restart, Nothing
<1>5. ASSUME NEW a \in Answers, Answer(a) PROVE TypeOK'
  <2> DEFINE m == [type |-> "answer", name |-> window, answer |-> a]
  <2>1. m \in Message BY <1>5 DEF Answer, Message
  <2>2. inbox' \in Seq(Message)
    <3> HIDE DEF m
    <3>1. inbox' = Append(inbox, m) \/ inbox' = inbox
      BY <1>5 DEF Answer, Send, m
    <3>2. inbox \in Seq(Message) OBVIOUS
    <3>3. Append(inbox, m) \in Seq(Message) BY <2>1, <3>2, AppendProperties, Zenon
    <3>4. QED BY <3>1, <3>2, <3>3, Zenon
  <2>3. window' \in {Absent, Hidden} BY <1>5 DEF Answer, Closed
  <2>4. QED BY <1>5, <2>2, <2>3 DEF Answer, history
<1>6. ASSUME NEW p \in Pid, NEW l \in Level, ClickRow(p, l) PROVE TypeOK'
  <2>1. table[p].name \in Name BY <1>6 DEF ClickRow
  <2>2. /\ [type |-> "tier", pid |-> p, level |-> l] \in Message
        /\ [type |-> "cap", name |-> table[p].name] \in Message
    BY <2>1 DEF Message
  <2>3. inbox' \in Seq(Message)
    <3>1. PICK m \in Message : inbox' = Append(inbox, m) BY <1>6, <2>2 DEF ClickRow
    <3>2. QED BY <3>1, AppendProperties
  <2>4. QED BY <1>6, <2>3 DEF ClickRow, history
<1>7. ASSUME NEW c \in HandRules, Reload(c) PROVE TypeOK'
  BY <1>7, RuleAssumption DEF Reload
<1>8. CASE ShowPrompt
  <2>1. frames' \in Seq(Name) /\ Head(frames) \in Name
    BY <1>8, HeadTailProperties DEF ShowPrompt
  <2>2. QED BY <1>8, <2>1 DEF ShowPrompt, history
<1>9. QED BY <1>1, <1>2, <1>3, <1>4, <1>5, <1>6, <1>7, <1>8 DEF User

\* Processes that come, go and change keep the types.
LEMMA WorldTypes ==
  ASSUME TypeOK, World
  PROVE  TypeOK'
<1> USE AbsentAssumption DEF TypeOK, memory, daemon, gui
<1>1. ASSUME NEW q \in [Pid -> Process \cup {Absent}], Processes(q),
             prio' \in [Pid -> Prio]
      PROVE  TypeOK'
  BY <1>1 DEF Processes
<1>2. Untouched \in Prio BY LevelAssumption DEF Untouched, Prio
<1>3. \A g \in Program : g.name \in Name /\ g.trait \in Trait
  BY ProgramAssumption
<1>4. ASSUME NEW p \in Pid, Exit(p) PROVE TypeOK'
  <2>1. [proc EXCEPT ![p] = Absent] \in [Pid -> Process \cup {Absent}] OBVIOUS
  <2>2. QED BY <1>1, <1>2, <1>4, <2>1 DEF Exit
<1>5. ASSUME NEW p \in Pid, GrowUp(p) PROVE TypeOK'
  <2>1. proc[p] \in Process BY <1>5 DEF GrowUp
  <2>2. [proc[p] EXCEPT !.young = FALSE] \in Process BY <2>1 DEF Process
  <2>3. [proc EXCEPT ![p] = [proc[p] EXCEPT !.young = FALSE]]
          \in [Pid -> Process \cup {Absent}]
    BY <2>2
  <2>4. QED BY <1>1, <1>5, <2>3 DEF GrowUp
<1>6. ASSUME NEW p \in Pid, NEW g \in Program, Become(p, g) PROVE TypeOK'
  <2> DEFINE q == [proc EXCEPT ![p].name = g.name, ![p].trait = g.trait]
  <2>1. proc[p] \in Process BY <1>6 DEF Become
  <2>2. [proc[p] EXCEPT !.name = g.name, !.trait = g.trait] \in Process
    BY <1>3, <2>1 DEF Process
  <2>3. q = [proc EXCEPT ![p] = [proc[p] EXCEPT !.name = g.name, !.trait = g.trait]]
    OBVIOUS
  <2>4. q \in [Pid -> Process \cup {Absent}]
    <3> HIDE DEF q
    <3>1. QED BY <2>2, <2>3
  <2>5. Processes(q) /\ UNCHANGED prio BY <1>6 DEF Become
  <2> HIDE DEF q
  <2>6. QED BY <1>1, <2>4, <2>5
<1>7. ASSUME NEW p \in Pid, NEW g \in Program, NEW y \in Young, Spawn(p, g, y) PROVE TypeOK'
  <2>1. [name |-> g.name, trait |-> g.trait, young |-> y] \in Process
    BY <1>3, BoundAssumption DEF Process
  <2>2. [proc EXCEPT ![p] = [name |-> g.name, trait |-> g.trait, young |-> y]]
           \in [Pid -> Process \cup {Absent}]
    BY <2>1
  <2>3. QED BY <1>1, <1>2, <1>7, <2>2 DEF Spawn
<1>8. ASSUME NEW p \in Pid, NEW l \in Level, Renice(p, l) PROVE TypeOK'
  <2>1. Tier(l) \in Prio BY DEF Tier, Prio
  <2>2. QED BY <1>8, <2>1 DEF Renice, history
<1>9. QED BY <1>4, <1>5, <1>6, <1>7, <1>8 DEF World

\* Nobody is in an empty table.
LEMMA NothingType ==
  ASSUME NEW S PROVE Nothing \in [Pid -> S \cup {Absent}]
BY Zenon DEF Nothing

\* Whatever happens, every variable keeps its type.
THEOREM TypeCorrect == Spec => []TypeOK
<1>1. Init => TypeOK
  <2>1. Untouched \in Prio BY LevelAssumption DEF Untouched, Prio
  <2>2. <<>> \in Seq(Name) /\ <<>> \in Seq(Message) BY EmptySeq
  <2> SUFFICES ASSUME Init PROVE TypeOK
    OBVIOUS
  <2>3. /\ proc \in [Pid -> Process \cup {Absent}]
        /\ scan \in [Pid -> Scanned \cup {Absent}]
        /\ cur \in [Pid -> Current \cup {Absent}]
        /\ table \in [Pid -> Row \cup {Absent}]
    BY NothingType, Zenon DEF Init
  <2>4. /\ prio \in [Pid -> Prio]
        /\ config \in [Key -> Rule \cup {Absent}]
        /\ word \in [Name -> Level \cup {Absent}]
        /\ flag_cache \in [Pid -> {"unknown", "game", "plain"}]
    BY <2>1, Zenon DEF Init
  <2>5. QED BY <2>2, <2>3, <2>4, Zenon DEF Init, TypeOK
<1>2. TypeOK /\ [Next]_vars => TypeOK'
  <2> SUFFICES ASSUME TypeOK, [Next]_vars PROVE TypeOK'
    OBVIOUS
  <2>1. CASE UNCHANGED vars BY <2>1 DEF TypeOK, vars
  <2>2. QED BY <2>1, PollTypes, RequestTypes, UserTypes, WorldTypes DEF Next
<1>3. QED BY <1>1, <1>2, PTL DEF Spec

----------------------------------------------------------------------------
(* Nobody is asked about desktop-critical names and our own.               *)

Barred == Critical \cup Own

\* Between polls nothing is left of the last one.
Rested == pc = "ipc" => scan = Nothing /\ cur = Nothing

\* A barred name can be flagged, by a verdict cached when the process had
\* another name; but then it is a name that has been decided about.
FlaggedOnlyByCache ==
  \A p \in Pid : cur[p] # Absent /\ cur[p].game /\ cur[p].name \in Barred =>
    HasRule(cur[p].name) \/ cur[p].name \in prompted \cup suppressed

Askable   == Name \ Barred
Permitted == {m \in Message : m.type = "answer" => m.name \notin Barred}
NoneOnTheWay == /\ \A i \in DOMAIN frames : frames[i] \in Askable
                /\ \A i \in DOMAIN inbox : inbox[i] \in Permitted

AskInv == NeverAsked /\ Rested /\ FlaggedOnlyByCache /\ NoneOnTheWay

\* Appending keeps what every element has; so does taking a prefix or the rest.
LEMMA AppendKeeps ==
  ASSUME NEW S, NEW s \in Seq(S), NEW m \in S, NEW T \in SUBSET S,
         m \in T, \A i \in DOMAIN s : s[i] \in T
  PROVE  \A i \in DOMAIN Append(s, m) : Append(s, m)[i] \in T
<1> DEFINE a == Append(s, m)
<1>1. /\ a \in Seq(S) /\ Len(a) = Len(s) + 1
      /\ \A i \in 1..Len(s) : a[i] = s[i]
      /\ a[Len(s) + 1] = m
  BY AppendProperties
<1>2. DOMAIN a = 1..Len(a) /\ DOMAIN s = 1..Len(s) /\ Len(s) \in Nat
  BY <1>1, LenProperties
<1> HIDE DEF a
<1>3. QED BY <1>1, <1>2 DEF a

LEMMA ConcatKeeps ==
  ASSUME NEW S, NEW s \in Seq(S), NEW r \in Seq(S), NEW T \in SUBSET S,
         \A i \in DOMAIN s : s[i] \in T, \A i \in DOMAIN r : r[i] \in T
  PROVE  \A i \in DOMAIN (s \o r) : (s \o r)[i] \in T
<1> DEFINE a == s \o r
<1>1. /\ a \in Seq(S) /\ Len(a) = Len(s) + Len(r)
      /\ \A i \in 1..Len(s) + Len(r) : a[i] = IF i <= Len(s) THEN s[i] ELSE r[i - Len(s)]
  BY ConcatProperties
<1>2. /\ DOMAIN a = 1..Len(a) /\ DOMAIN s = 1..Len(s) /\ DOMAIN r = 1..Len(r)
      /\ Len(s) \in Nat /\ Len(r) \in Nat
  BY <1>1, LenProperties
<1> HIDE DEF a
<1>3. QED BY <1>1, <1>2 DEF a

LEMMA TailKeeps ==
  ASSUME NEW S, NEW s \in Seq(S), s # <<>>, NEW T \in SUBSET S,
         \A i \in DOMAIN s : s[i] \in T
  PROVE  Head(s) \in T /\ \A i \in DOMAIN Tail(s) : Tail(s)[i] \in T
<1>1. /\ Tail(s) \in Seq(S) /\ Len(Tail(s)) = Len(s) - 1
      /\ \A i \in 1..Len(Tail(s)) : Tail(s)[i] = s[i + 1]
  BY HeadTailProperties
<1>2. /\ DOMAIN Tail(s) = 1..Len(Tail(s)) /\ DOMAIN s = 1..Len(s)
      /\ Len(s) \in Nat /\ Len(s) # 0
  BY <1>1, LenProperties, EmptySeq
<1>3. Head(s) = s[1] OBVIOUS
<1>4. QED BY <1>1, <1>2, <1>3

LEMMA PrefixKeeps ==
  ASSUME NEW S, NEW s \in Seq(S), NEW k \in 0..Len(s), NEW T \in SUBSET S,
         \A i \in DOMAIN s : s[i] \in T
  PROVE  \A i \in DOMAIN SubSeq(s, 1, k) : SubSeq(s, 1, k)[i] \in T
<1> DEFINE a == SubSeq(s, 1, k)
<1>1. DOMAIN s = 1..Len(s) /\ Len(s) \in Nat /\ \A i \in 1..Len(s) : s[i] \in S
  BY LenProperties, ElementOfSeq
<1>2. /\ a \in Seq(S) /\ Len(a) = k
      /\ \A i \in 1..k : a[i] = s[i]
  BY <1>1, SubSeqProperties
<1>3. DOMAIN a = 1..k BY <1>2, LenProperties
<1> HIDE DEF a
<1>4. QED BY <1>1, <1>2, <1>3 DEF a

\* The poll asks about no barred name.
LEMMA PollAsksNone ==
  ASSUME TypeOK, AskInv, Poll
  PROVE  AskInv'
<1> USE DEF AskInv, NeverAsked, Rested, Barred
<1>1. CASE BeginPoll
  <2>1. cur = Nothing BY <1>1 DEF BeginPoll
  <2>2. FlaggedOnlyByCache' BY <1>1, <2>1 DEF BeginPoll, FlaggedOnlyByCache, Nothing
  <2>3. NoneOnTheWay' BY <1>1 DEF BeginPoll, NoneOnTheWay, gui
  <2>4. QED BY <1>1, <2>2, <2>3 DEF BeginPoll, memory, gui
<1>2. ASSUME NEW p \in Pid, Visit(p) PROVE AskInv'
  <2> DEFINE n    == scan[p].name
             game == n \notin Own /\ (Verdict(p) = "game" \/ Listed(scan[p]))
  <2>1. UNCHANGED <<config, pc, prompted, suppressed, instance_games, pending,
                    frames, inbox, window>> /\ pc = "poll"
    BY <1>2 DEF Visit, memory, gui
  <2>2. cur' = [cur EXCEPT ![p] = [name |-> n, nice |-> scan[p].nice, game |-> game]]
    BY <1>2 DEF Visit
  <2>3. game /\ n \in Barred => HasRule(n) \/ n \in prompted \cup suppressed
    BY DEF Verdict, Undecided, Heuristic, Listed
  <2> HIDE DEF game
  <2>4. ASSUME NEW q \in Pid, cur'[q] # Absent, cur'[q].game, cur'[q].name \in Barred
        PROVE  (HasRule(cur[q].name) \/ cur[q].name \in prompted \cup suppressed)'
    <3>1. CASE q = p
      <4>1. cur'[q].name = n /\ game BY <2>2, <2>4, <3>1 DEF TypeOK
      <4>2. HasRule(n) \/ n \in prompted \cup suppressed BY <2>3, <2>4, <4>1
      <4>3. QED BY <2>1, <4>1, <4>2 DEF HasRule, RulesFor
    <3>2. CASE q # p
      <4>1. cur'[q] = cur[q] BY <2>2, <3>2 DEF TypeOK
      <4>2. HasRule(cur[q].name) \/ cur[q].name \in prompted \cup suppressed
        BY <2>4, <4>1 DEF FlaggedOnlyByCache
      <4>3. QED BY <2>1, <4>1, <4>2 DEF HasRule, RulesFor
    <3>3. QED BY <3>1, <3>2
  <2>5. FlaggedOnlyByCache' BY <2>4 DEF FlaggedOnlyByCache
  <2>6. QED BY <2>1, <2>5 DEF NoneOnTheWay
<1>3. CASE EndPoll
  <2> DEFINE fresh == FreshGames(prompted \cap Kept, suppressed \cap Kept)
             asked == {cur[p].name : p \in fresh}
  <2>1. ASSUME NEW p \in fresh PROVE cur[p].name \in Askable
    <3>1. /\ p \in Listing /\ cur[p].game /\ ~HasRule(cur[p].name)
          /\ cur[p].name \notin (prompted \cap Kept) \cup (suppressed \cap Kept)
      BY <2>1 DEF FreshGames
    <3>2. cur[p].name \in Kept BY <3>1 DEF Kept
    <3>3. p \in Pid /\ cur[p] # Absent BY <3>1 DEF Listing
    <3>4. cur[p].name \notin Barred BY <3>1, <3>2, <3>3 DEF FlaggedOnlyByCache
    <3>5. cur[p].name \in Name BY <3>3 DEF TypeOK, Current
    <3>6. QED BY <3>4, <3>5 DEF Askable
  <2> HIDE DEF fresh
  <2>2. asked \subseteq Askable BY <2>1
  <2>3. \A i \in DOMAIN frames' : frames'[i] \in Askable
    <3>1. CASE connected
      <4>1. PICK f \in FramesFor(fresh) : frames' = frames \o f
        BY <1>3, <3>1 DEF EndPoll, fresh
      <4>2. fresh \in SUBSET Pid BY DEF FreshGames, Listing, fresh
      <4>3. f \in Seq(Name) /\ \A i \in DOMAIN f : f[i] \in Askable
        BY <2>1, <4>2, FramesForType
      <4>4. frames \in Seq(Name) /\ \A i \in DOMAIN frames : frames[i] \in Askable
        BY DEF TypeOK, NoneOnTheWay
      <4>5. Askable \in SUBSET Name BY DEF Askable
      <4>6. QED BY <4>1, <4>3, <4>4, <4>5, ConcatKeeps
    <3>2. CASE ~connected BY <1>3, <3>2 DEF EndPoll, NoneOnTheWay
    <3>3. QED BY <3>1, <3>2
  <2>4. /\ pending' \subseteq pending \cup asked
        /\ instance_games' \subseteq instance_games \cup asked
        /\ UNCHANGED <<inbox, window, scan>> /\ cur' = Nothing /\ pc' = "ipc"
        /\ scan = Nothing
    BY <1>3 DEF EndPoll, fresh
  <2> HIDE DEF asked
  <2>5. NeverAsked' BY <2>2, <2>4 DEF Askable
  <2>6. FlaggedOnlyByCache' BY <2>4 DEF FlaggedOnlyByCache, Nothing
  <2>7. NoneOnTheWay' BY <2>3, <2>4 DEF NoneOnTheWay
  <2>8. QED BY <2>4, <2>5, <2>6, <2>7
<1>4. QED BY <1>1, <1>2, <1>3 DEF Poll

\* What processes do changes nothing that the daemon or the GUI keeps.
LEMMA WorldChanges ==
  ASSUME World
  PROVE  /\ UNCHANGED <<config, pc, daemon, memory, gui, word>>
         /\ \/ \E q : Processes(q)
            \/ UNCHANGED <<proc, history>>
<1>1. \A q : Processes(q) => UNCHANGED <<config, pc, daemon, memory, gui, word>>
  BY DEF Processes
<1>2. ASSUME NEW p \in Pid, Exit(p) PROVE \E q : Processes(q) BY <1>2 DEF Exit
<1>3. ASSUME NEW p \in Pid, GrowUp(p) PROVE \E q : Processes(q) BY <1>3 DEF GrowUp
<1>4. ASSUME NEW p \in Pid, NEW g \in Program, Become(p, g) PROVE \E q : Processes(q)
  BY <1>4 DEF Become
<1>5. ASSUME NEW p \in Pid, NEW g \in Program, NEW y \in Young, Spawn(p, g, y)
      PROVE  \E q : Processes(q)
  BY <1>5 DEF Spawn
<1>6. ASSUME NEW p \in Pid, NEW l \in Level, Renice(p, l)
      PROVE  UNCHANGED <<proc, config, pc, daemon, memory, gui, history>>
  BY <1>6 DEF Renice
<1>7. QED BY <1>1, <1>2, <1>3, <1>4, <1>5, <1>6 DEF World, history

\* Neither does anything between polls, or a process that changes.
LEMMA OthersAskNone ==
  ASSUME TypeOK, AskInv, HandleMsg \/ ShowPrompt \/ User \/ World \/ UNCHANGED vars
  PROVE  AskInv'
<1> USE DEF AskInv, NeverAsked, Rested, Barred
<1>1. ASSUME pc' = pc, scan' = scan, cur' = cur, config' = config,
             prompted' = prompted, suppressed' = suppressed
      PROVE  Rested' /\ FlaggedOnlyByCache'
  BY <1>1 DEF FlaggedOnlyByCache, HasRule, RulesFor
<1>2. ASSUME pc = "ipc", pc' = "ipc", scan' = scan, cur' = cur
      PROVE  Rested' /\ FlaggedOnlyByCache'
  BY <1>2 DEF FlaggedOnlyByCache, Nothing
<1>3. Permitted \in SUBSET Message /\ Askable \in SUBSET Name
  BY DEF Permitted, Askable
<1>4. inbox \in Seq(Message) /\ frames \in Seq(Name) BY DEF TypeOK
<1>5. CASE HandleMsg
  <2> DEFINE m == Head(inbox)
  <2>1. m \in Permitted /\ \A i \in DOMAIN inbox' : inbox'[i] \in Permitted
    BY <1>3, <1>4, <1>5, TailKeeps DEF HandleMsg, NoneOnTheWay
  <2>2. Rested' /\ FlaggedOnlyByCache' BY <1>2, <1>5 DEF HandleMsg, daemon
  <2>3. NoneOnTheWay' BY <1>5, <2>1 DEF HandleMsg, NoneOnTheWay
  <2>4. pending' \subseteq pending /\ window' = window
    BY <1>5 DEF HandleMsg, Confirm, SetTier, SetCap, memory
  <2>5. instance_games' \cap Barred = {}
    <3>1. CASE m.type = "answer" /\ Confirm(m.name, m.answer)
      BY <2>1, <3>1 DEF Confirm, PutOff, Permitted
    <3>2. CASE ~(m.type = "answer" /\ Confirm(m.name, m.answer))
      BY <1>5, <3>2 DEF HandleMsg, SetTier, SetCap, memory
    <3>3. QED BY <3>1, <3>2
  <2>6. QED BY <2>2, <2>3, <2>4, <2>5
<1>6. CASE ShowPrompt
  <2>1. Head(frames) \in Askable /\ \A i \in DOMAIN frames' : frames'[i] \in Askable
    BY <1>3, <1>4, <1>6, TailKeeps DEF ShowPrompt, NoneOnTheWay
  <2>2. QED BY <1>1, <1>6, <2>1 DEF ShowPrompt, NoneOnTheWay, daemon, memory, Askable
<1>7. ASSUME NEW a \in Answers, Answer(a) PROVE AskInv'
  <2> DEFINE m == [type |-> "answer", name |-> window, answer |-> a]
  <2>1. m \in Permitted BY <1>7 DEF Answer, Permitted, Message, TypeOK
  <2>2. inbox' = inbox \/ inbox' = Append(inbox, m) BY <1>7 DEF Answer, Send
  <2> HIDE DEF m
  <2>3. \A i \in DOMAIN inbox' : inbox'[i] \in Permitted
    BY <1>3, <1>4, <2>1, <2>2, AppendKeeps DEF NoneOnTheWay
  <2>4. window' \notin Barred
    BY <1>7, NameAssumption, AbsentAssumption, HiddenAssumption DEF Answer, Closed
  <2>5. QED BY <1>1, <1>7, <2>3, <2>4 DEF Answer, NoneOnTheWay, daemon, memory
<1>8. ASSUME NEW p \in Pid, NEW l \in Level, ClickRow(p, l) PROVE AskInv'
  <2>1. table[p].name \in Name BY <1>8, AbsentAssumption DEF ClickRow, TypeOK, Row
  <2>2. PICK m \in Permitted : inbox' = Append(inbox, m)
    <3>1. /\ [type |-> "tier", pid |-> p, level |-> l] \in Permitted
          /\ [type |-> "cap", name |-> table[p].name] \in Permitted
      BY <2>1 DEF Permitted, Message
    <3>2. QED BY <1>8, <3>1 DEF ClickRow
  <2>3. \A i \in DOMAIN inbox' : inbox'[i] \in Permitted
    BY <1>3, <1>4, <2>2, AppendKeeps DEF NoneOnTheWay
  <2>4. QED BY <1>1, <1>8, <2>3 DEF ClickRow, NoneOnTheWay, daemon, memory
<1>9. CASE Disconnect
  <2>1. PICK k \in 0..Len(inbox) : inbox' = SubSeq(inbox, 1, k) BY <1>9 DEF Disconnect
  <2>2. \A i \in DOMAIN inbox' : inbox'[i] \in Permitted
    BY <1>3, <1>4, <2>1, PrefixKeeps DEF NoneOnTheWay
  <2>3. window' \notin Barred
    BY <1>1, <1>9, NameAssumption, AbsentAssumption DEF Disconnect, NoneOnTheWay
  <2>4. QED BY <1>1, <1>9, <2>2, <2>3 DEF Disconnect, NoneOnTheWay, daemon, memory
<1>10. CASE Connect BY <1>1, <1>10 DEF Connect, NoneOnTheWay, daemon, memory
<1>11. CASE Dismiss
  <2>1. window' \notin Barred
    BY <1>11, NameAssumption, AbsentAssumption, HiddenAssumption DEF Dismiss, Closed
  <2>2. QED BY <1>1, <1>11, <2>1 DEF Dismiss, NoneOnTheWay, daemon, memory
<1>12. CASE Restart BY <1>2, <1>12 DEF Restart, NoneOnTheWay
<1>13. ASSUME NEW c \in HandRules, Reload(c) PROVE AskInv'
  BY <1>2, <1>13 DEF Reload, NoneOnTheWay, daemon, memory, gui
<1>14. CASE World
  <2>1. UNCHANGED <<config, pc, daemon, memory, gui>>
    BY <1>14, WorldChanges
  <2>2. QED BY <1>1, <2>1 DEF NoneOnTheWay, daemon, memory, gui
<1>15. CASE UNCHANGED vars
  BY <1>1, <1>15 DEF vars, NoneOnTheWay
<1>16. QED
  BY <1>5, <1>6, <1>7, <1>8, <1>9, <1>10, <1>11, <1>12, <1>13, <1>14, <1>15 DEF User

\* Whichever process had which name when, nobody is asked about the desktop's
\* own processes or Nicewatch's, and no answer makes them games.
THEOREM BarredNeverAsked == Spec => []NeverAsked
<1>1. Init => AskInv
  BY NameAssumption, AbsentAssumption
     DEF Init, AskInv, NeverAsked, Rested, FlaggedOnlyByCache, NoneOnTheWay, Nothing, Barred
<1>2. TypeOK /\ AskInv /\ [Next]_vars => AskInv'
  BY PollAsksNone, OthersAskNone DEF Next
<1>3. AskInv => NeverAsked BY DEF AskInv
<1>4. QED BY <1>1, <1>2, <1>3, TypeCorrect, PTL DEF Spec

----------------------------------------------------------------------------
(* What was asked and answered lasts as long as the name is in use.        *)

\* Names of the processes of the current poll, visited or not.
Polled == {scan[p].name : p \in {q \in Pid : scan[q] # Absent}} \cup Kept

\* A name in the history is still in use, and the current poll has met it.
UsesLast ==
  /\ \A n \in running \cup deferred : Runs(n)
  /\ pc = "poll" => running \cup deferred \subseteq Polled

\* A process is listed when it is visited.
ListedOnVisit == \A p \in Pid : scan[p] # Absent => cur[p] = Absent

LastInv == UsesLast /\ ListedOnVisit /\ Rested /\ running \subseteq prompted /\ NotNowLasts

\* At the end of a poll, every name in the history was scanned.
LEMMA HistoryIsKept ==
  ASSUME LastInv, EndPoll
  PROVE  running \cup deferred \subseteq Kept
<1>1. scan = Nothing /\ pc = "poll" BY DEF EndPoll
<1>2. Polled = Kept BY <1>1 DEF Polled, Nothing
<1>3. QED BY <1>1, <1>2 DEF LastInv, UsesLast

\* A visit moves a name from the scan to the list.
LEMMA VisitKeepsPolled ==
  ASSUME TypeOK, ListedOnVisit, NEW p \in Pid, Visit(p), NEW n \in Polled
  PROVE  n \in Polled'
<1>1. /\ scan[p] # Absent /\ scan' = [scan EXCEPT ![p] = Absent]
      /\ cur'[p].name = scan[p].name
      /\ cur'[p] \in Current
      /\ \A q \in Pid : q # p => cur'[q] = cur[q] /\ scan'[q] = scan[q]
  <2> DEFINE game == scan[p].name \notin Own /\ (Verdict(p) = "game" \/ Listed(scan[p]))
  <2>1. scan[p] # Absent /\ scan' = [scan EXCEPT ![p] = Absent] BY DEF Visit
  <2>2. cur' = [cur EXCEPT ![p] =
                 [name |-> scan[p].name, nice |-> scan[p].nice, game |-> game]]
    BY DEF Visit
  <2>3. scan[p] \in Scanned BY <2>1 DEF TypeOK
  <2>4. game \in BOOLEAN OBVIOUS
  <2> HIDE DEF game
  <2>5. QED BY <2>1, <2>2, <2>3, <2>4 DEF TypeOK, Scanned, Current
<1>2. cur'[p] # Absent BY <1>1, AbsentAssumption
<1>3. ASSUME NEW q \in Pid, scan[q] # Absent, scan[q].name = n PROVE n \in Polled'
  <2>1. CASE q = p BY <1>1, <1>2, <1>3, <2>1 DEF Polled, Kept, Listing
  <2>2. CASE q # p BY <1>1, <1>3, <2>2 DEF Polled
  <2>3. QED BY <2>1, <2>2
<1>4. ASSUME NEW q \in Pid, cur[q] # Absent, cur[q].name = n PROVE n \in Polled'
  <2>1. q # p BY <1>1, <1>4 DEF ListedOnVisit
  <2>2. QED BY <1>1, <1>4, <2>1 DEF Polled, Kept, Listing
<1>5. QED BY <1>3, <1>4 DEF Polled, Kept, Listing

\* The poll forgets no name that is still in use.
LEMMA PollForgetsNone ==
  ASSUME TypeOK, LastInv, Poll
  PROVE  LastInv'
<1> USE DEF LastInv, NotNowLasts
<1>1. CASE BeginPoll
  <2>1. UNCHANGED <<proc, cur, running, deferred, prompted, suppressed, instance_games>>
    BY <1>1 DEF BeginPoll, memory, history
  <2>2. ASSUME NEW p \in Pid, proc[p] # Absent
        PROVE  scan'[p] # Absent /\ scan'[p].name = proc[p].name
    <3> DEFINE e == [name |-> proc[p].name, trait |-> proc[p].trait,
                     young |-> proc[p].young, nice |-> prio[p].nice]
    <3>1. scan'[p] = e BY <1>1, <2>2 DEF BeginPoll
    <3>2. proc[p] \in Process /\ prio[p] \in Prio BY <2>2 DEF TypeOK
    <3>3. e.name = proc[p].name /\ e \in Scanned BY <3>2 DEF Process, Prio, Scanned
    <3> HIDE DEF e
    <3>4. QED BY <3>1, <3>3, AbsentAssumption
  <2>3. \A n : Runs(n) => n \in Polled' BY <2>2 DEF Runs, Polled
  <2>4. UsesLast' BY <2>1, <2>3 DEF UsesLast, Runs
  <2>5. ListedOnVisit' BY <1>1, <2>1 DEF BeginPoll, Rested, ListedOnVisit, Nothing
  <2>6. QED BY <1>1, <2>1, <2>4, <2>5 DEF BeginPoll, Rested
<1>2. ASSUME NEW p \in Pid, Visit(p) PROVE LastInv'
  <2>1. UNCHANGED <<proc, pc, running, deferred, prompted, suppressed, instance_games>>
        /\ pc = "poll"
    BY <1>2 DEF Visit, memory, history
  <2>2. \A n \in Polled : n \in Polled' BY <1>2, VisitKeepsPolled
  <2>3. UsesLast' BY <2>1, <2>2 DEF UsesLast, Runs
  <2>4. ListedOnVisit' BY <1>2 DEF ListedOnVisit, Visit, TypeOK
  <2>5. QED BY <2>1, <2>3, <2>4 DEF Rested
<1>3. CASE EndPoll
  <2>1. running \cup deferred \subseteq Kept BY <1>3, HistoryIsKept
  <2>2. UsesLast' BY <1>3 DEF EndPoll, UsesLast, Runs
  <2>3. Rested' /\ ListedOnVisit' BY <1>3 DEF EndPoll, Rested, ListedOnVisit, Nothing
  <2>4. running' \subseteq prompted' BY <1>3, <2>1 DEF EndPoll
  <2>5. NotNowLasts' BY <1>3, <2>1 DEF EndPoll
  <2>6. QED BY <2>2, <2>3, <2>4, <2>5
<1>4. QED BY <1>1, <1>2, <1>3 DEF Poll

\* Neither do requests, the GUI, or processes: a name leaves the history as its
\* last process does.
LEMMA OthersForgetNone ==
  ASSUME LastInv, HandleMsg \/ ShowPrompt \/ User \/ World \/ UNCHANGED vars
  PROVE  LastInv'
<1> USE DEF LastInv, NotNowLasts
<1>1. ASSUME UNCHANGED <<proc, pc, scan, cur, memory, running, deferred>>
      PROVE  LastInv'
  BY <1>1 DEF UsesLast, ListedOnVisit, Rested, Runs, Polled, Kept, Listing, memory
<1>2. CASE HandleMsg
  <2> DEFINE m == Head(inbox)
  <2>1. CASE m.type = "answer" /\ Confirm(m.name, m.answer)
    <3>1. /\ UNCHANGED <<proc, pc, scan, cur, running, prompted>>
          /\ pc = "ipc"
      BY <1>2, <2>1 DEF HandleMsg, daemon, Confirm
    <3>2. \A n \in deferred' \ deferred : Runs(n)
      BY <2>1 DEF Confirm
    <3>3. NotNowLasts' BY <2>1 DEF Confirm, PutOff
    <3>4. UsesLast' BY <3>1, <3>2 DEF UsesLast, Runs
    <3>5. QED BY <3>1, <3>3, <3>4 DEF ListedOnVisit, Rested
  <2>2. CASE ~(m.type = "answer" /\ Confirm(m.name, m.answer))
    BY <1>1, <1>2, <2>2 DEF HandleMsg, SetTier, SetCap, daemon
  <2>3. QED BY <2>1, <2>2
<1>3. CASE Restart BY <1>3 DEF Restart, UsesLast, ListedOnVisit, Rested
<1>4. CASE World
  <2>1. UNCHANGED <<pc, scan, cur, memory>>
    BY <1>4, WorldChanges DEF daemon
  <2>2. CASE UNCHANGED <<proc, history>> BY <1>1, <2>1, <2>2 DEF history
  <2>3. ASSUME NEW q, Processes(q) PROVE LastInv'
    <3>1. /\ running' \subseteq running /\ deferred' \subseteq deferred
          /\ \A n \in running' \cup deferred' : Runs(n)'
      BY <2>3 DEF Processes, Runs
    <3>2. QED
      BY <2>1, <3>1 DEF UsesLast, ListedOnVisit, Rested, Polled, Kept, Listing, memory
  <2>4. QED BY <1>4, <2>2, <2>3, WorldChanges
<1>5. CASE ShowPrompt BY <1>1, <1>5 DEF ShowPrompt, daemon, history
<1>6. CASE Connect \/ Disconnect \/ Dismiss
  BY <1>1, <1>6 DEF Connect, Disconnect, Dismiss, daemon, history
<1>7. ASSUME NEW a \in Answers, Answer(a) PROVE LastInv'
  BY <1>1, <1>7 DEF Answer, daemon, history
<1>8. ASSUME NEW p \in Pid, NEW l \in Level, ClickRow(p, l) PROVE LastInv'
  BY <1>1, <1>8 DEF ClickRow, daemon, history
<1>9. ASSUME NEW c \in HandRules, Reload(c) PROVE LastInv'
  BY <1>1, <1>9 DEF Reload, daemon
<1>10. CASE UNCHANGED vars BY <1>1, <1>10 DEF vars, memory
<1>11. QED BY <1>2, <1>3, <1>4, <1>5, <1>6, <1>7, <1>8, <1>9, <1>10 DEF User

\* Between them: the history is part of what the daemon remembers.
LEMMA LastInvHolds == Spec => []LastInv
<1>1. Init => LastInv
  BY DEF Init, LastInv, UsesLast, ListedOnVisit, Rested, NotNowLasts, Nothing
<1>2. TypeOK /\ LastInv /\ [Next]_vars => LastInv'
  BY PollForgetsNone, OthersForgetNone DEF Next
<1>3. QED BY <1>1, <1>2, TypeCorrect, PTL DEF Spec

\* "Not now" holds, polls and restarts of processes notwithstanding, as long as
\* some process has had the name ever since.
THEOREM NotNowHolds == Spec => []NotNowLasts
<1>1. LastInv => NotNowLasts BY DEF LastInv
<1>2. QED BY <1>1, LastInvHolds, PTL

\* A poll asks about no name that some process has had ever since it was asked
\* about before.
THEOREM AskedOnlyOnce == Spec => AskedOnce
<1>1. TypeOK /\ LastInv /\ EndPoll =>
        \A i \in Len(frames) + 1..Len(frames') : frames'[i] \notin running
  <2> SUFFICES ASSUME TypeOK, LastInv, EndPoll, NEW i \in Len(frames) + 1..Len(frames')
               PROVE  frames'[i] \notin running
    OBVIOUS
  <2> DEFINE fresh == FreshGames(prompted \cap Kept, suppressed \cap Kept)
  <2>1. running \subseteq prompted \cap Kept BY HistoryIsKept DEF LastInv
  <2>2. fresh \in SUBSET Pid /\ \A p \in fresh : cur[p].name \notin running
    BY <2>1 DEF FreshGames, Listing
  <2>3. frames \in Seq(Name) BY DEF TypeOK
  <2>4. Len(frames) \in Nat BY <2>3, LenProperties
  <2>5. connected BY <2>4 DEF EndPoll
  <2>6. PICK f \in FramesFor(fresh) : frames' = frames \o f BY <2>5 DEF EndPoll
  <2> HIDE DEF fresh
  <2>7. f \in Seq(Name) /\ \A j \in DOMAIN f : f[j] \notin running
    BY <2>2, FramesForType
  <2>8. /\ Len(frames') = Len(frames) + Len(f)
        /\ \A j \in 1..Len(frames) + Len(f) :
             frames'[j] = IF j <= Len(frames) THEN frames[j] ELSE f[j - Len(frames)]
    BY <2>3, <2>6, <2>7, ConcatProperties
  <2>9. DOMAIN f = 1..Len(f) /\ Len(f) \in Nat BY <2>7, LenProperties
  <2>10. i - Len(frames) \in DOMAIN f /\ frames'[i] = f[i - Len(frames)]
    BY <2>4, <2>8, <2>9
  <2>11. QED BY <2>7, <2>10
<1>2. TypeOK /\ LastInv /\ [Next]_vars =>
        [EndPoll => \A i \in Len(frames) + 1..Len(frames') : frames'[i] \notin running]_vars
  BY <1>1
<1>3. QED BY <1>2, TypeCorrect, LastInvHolds, PTL DEF Spec, AskedOnce

----------------------------------------------------------------------------
(* The user's answers.                                                     *)

\* Nobody writes a rule for a name under a key that comes after the name: it
\* would overrule the one the daemon writes under the name.
NoLaterKey ==
  \A c \in HandRules, k \in Key : c[k] # Absent => KeyOrder[k] =< KeyOrder[c[k].match]

\* So no rule is under such a key, and what the user said of a name is the rule
\* under it.
WordInv ==
  /\ \A k \in Key : config[k] # Absent => KeyOrder[k] =< KeyOrder[config[k].match]
  /\ \A n \in Name : word[n] # Absent => config[n] = Preset(n, word[n])

\* Saying l about n, in rules and history, keeps the two in step.
LEMMA SayingKeeps ==
  ASSUME TypeOK, WordInv, NEW n \in Name, NEW l \in Level, SetPreset(n, l), Says(n, l)
  PROVE  WordInv'
<1>1. n \in Key /\ KeyOrder[n] =< KeyOrder[n] BY NameAssumption, KeyAssumption
<1>2. Preset(n, l).match = n BY DEF Preset
<1>3. /\ config' = [config EXCEPT ![n] = Preset(n, l)]
      /\ word' = [word EXCEPT ![n] = l]
  BY DEF SetPreset, Says
<1>4. \A k \in Key : config'[k] = IF k = n THEN Preset(n, l) ELSE config[k]
  BY <1>3 DEF TypeOK
<1>5. \A m \in Name : word'[m] = IF m = n THEN l ELSE word[m]
  BY <1>3 DEF TypeOK
<1>6. \A m \in Name : m \in Key BY NameAssumption
<1>7. QED BY <1>1, <1>2, <1>4, <1>5, <1>6 DEF WordInv

LEMMA WordInductive ==
  ASSUME NoLaterKey, TypeOK, WordInv, [Next]_vars
  PROVE  WordInv'
<1>1. CASE HandleMsg
  <2> DEFINE m == Head(inbox)
  <2>1. m \in Message BY <1>1, HeadTailProperties DEF HandleMsg, TypeOK
  <2>2. {"game", "software"} \subseteq Level BY LevelAssumption
  <2>3. CASE m.type = "answer" /\ Confirm(m.name, m.answer)
    <3>1. m.name \in Name BY <2>1, <2>3 DEF Message
    <3>2. \/ UNCHANGED <<config, word>>
          \/ \E l \in {"game", "software"} : SetPreset(m.name, l) /\ Says(m.name, l)
      BY <2>3 DEF Confirm
    <3>3. QED BY <2>2, <3>1, <3>2, SayingKeeps DEF WordInv
  <2>4. CASE m.type = "tier" /\ SetTier(m.pid, m.level)
    <3>1. m.pid \in Pid /\ m.level \in Level BY <2>1, <2>4 DEF Message
    <3>2. table[m.pid] # Absent => table[m.pid].name \in Name
      BY <3>1 DEF TypeOK, Row
    <3>3. QED BY <2>4, <3>1, <3>2, SayingKeeps DEF SetTier, WordInv
  <2>5. CASE m.type = "cap" /\ SetCap(m.name)
    <3>1. m.name \in Name BY <2>1, <2>5 DEF Message
    <3>2. QED BY <2>2, <2>5, <3>1, SayingKeeps DEF SetCap, WordInv
  <2>6. QED BY <1>1, <2>3, <2>4, <2>5 DEF HandleMsg
<1>2. ASSUME NEW c \in HandRules, Reload(c) PROVE WordInv'
  BY <1>2 DEF Reload, NoLaterKey, WordInv
<1>3. CASE UNCHANGED <<config, word>> BY <1>3 DEF WordInv
<1>4. CASE Poll
  BY <1>3, <1>4 DEF Poll, BeginPoll, Visit, EndPoll, history
<1>5. CASE ShowPrompt \/ Connect \/ Disconnect \/ Dismiss \/ Restart
  BY <1>3, <1>5 DEF ShowPrompt, Connect, Disconnect, Dismiss, Restart, history
<1>6. ASSUME NEW a \in Answers, Answer(a) PROVE WordInv'
  BY <1>3, <1>6 DEF Answer, history
<1>7. ASSUME NEW p \in Pid, NEW l \in Level, ClickRow(p, l) PROVE WordInv'
  BY <1>3, <1>7 DEF ClickRow, history
<1>8. CASE World
  BY <1>3, <1>8, WorldChanges
<1>9. CASE UNCHANGED vars BY <1>3, <1>9 DEF vars
<1>10. QED BY <1>1, <1>2, <1>4, <1>5, <1>6, <1>7, <1>8, <1>9 DEF Next, User

\* What the user said of a name is what a poll decides about it, whatever the
\* heuristic says by now and whatever the process is to the running instance.
LEMMA WordDecides ==
  ASSUME TypeOK, WordInv, NEW e, NEW game,
         e.name \in Name \ Critical, word[e.name] # Absent
  PROVE  Resolved(e, game) = Tier(word[e.name])
<1> DEFINE n == e.name
           l == word[e.name]
<1>1. n \in Key /\ l \in Level BY NameAssumption DEF TypeOK
<1>2. config[n] = Preset(n, l) /\ Preset(n, l) \in Rule
  BY <1>1, PresetType DEF WordInv
<1>3. config[n] # Absent BY <1>2, AbsentAssumption
<1>4. n \in RulesFor(n) BY <1>1, <1>2, <1>3 DEF RulesFor, Preset
<1>5. HasRule(n) BY <1>4 DEF HasRule
<1>6. RuleFor(n) = Preset(n, l)
  <2> DEFINE last(k) == \A j \in RulesFor(n) : KeyOrder[j] =< KeyOrder[k]
  <2>1. RulesFor(n) \subseteq Key BY DEF RulesFor
  <2>2. \A k \in RulesFor(n) : KeyOrder[k] =< KeyOrder[n] BY DEF RulesFor, WordInv
  <2>3. \A k \in RulesFor(n) : last(k) => k = n
    BY <1>1, <1>4, <2>1, <2>2, KeyAssumption
  <2>4. (CHOOSE k \in RulesFor(n) : last(k)) = n BY <1>4, <2>2, <2>3
  <2>5. QED BY <1>2, <2>4 DEF RuleFor
<1>7. RuleFor(n).target = Tier(l) /\ ~RuleFor(n).delayed
  BY <1>6 DEF Preset
<1>8. Tier(l) # Absent
  BY <1>1, AbsentAssumption DEF Tier, Target
<1>9. QED BY <1>5, <1>7, <1>8 DEF Resolved

\* README: Yes and No persist a rule.  Whatever the user told the daemon about a
\* name, no poll gives a process of that name another priority, until somebody
\* edits the file; as long as nobody writes its rules under later keys.
THEOREM AnswersAreKept ==
  ASSUME NoLaterKey PROVE Spec => AnswersStick
<1>1. Init => WordInv BY DEF Init, WordInv
<1>2. TypeOK /\ WordInv =>
        [\A p \in Pid : Visit(p) /\ scan[p].name \notin Critical /\ word[scan[p].name] # Absent
           => /\ prio'[p].nice \in {prio[p].nice, word[scan[p].name]}
              /\ prio'[p].io \in {prio[p].io, word[scan[p].name]}]_vars
  <2> SUFFICES ASSUME TypeOK, WordInv, NEW p \in Pid, Visit(p),
                      scan[p].name \notin Critical, word[scan[p].name] # Absent
               PROVE  /\ prio'[p].nice \in {prio[p].nice, word[scan[p].name]}
                      /\ prio'[p].io \in {prio[p].io, word[scan[p].name]}
    OBVIOUS
  <2> DEFINE l == word[scan[p].name]
             game == scan[p].name \notin Own /\ (Verdict(p) = "game" \/ Listed(scan[p]))
  <2>1. scan[p].name \in Name BY DEF Visit, TypeOK, Scanned
  <2>2. Resolved(scan[p], game) = Tier(l) BY <2>1, WordDecides
  <2>3. prio' = prio \/ prio' = [prio EXCEPT ![p] = Applied(p, Tier(l))]
    BY <2>2 DEF Visit
  <2>4. /\ Applied(p, Tier(l)).nice \in {prio[p].nice, l}
        /\ Applied(p, Tier(l)).io \in {prio[p].io, l}
    BY DEF Applied, Tier
  <2>5. prio'[p] = prio[p] \/ prio'[p] = Applied(p, Tier(l)) BY <2>3 DEF TypeOK
  <2>6. QED BY <2>4, <2>5
<1>3. Spec => []WordInv BY <1>1, TypeCorrect, WordInductive, PTL DEF Spec
<1>4. QED BY <1>2, <1>3, TypeCorrect, PTL DEF AnswersStick
=============================================================================
