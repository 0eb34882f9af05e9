------------------------------ MODULE McpProofs ------------------------------
(***************************************************************************)
(* What Mcp keeps true for any clients, any ceiling, any versions and any  *)
(* faults: a call that is pinned fits, whoever is suspended stops, what is *)
(* told of a message is what happened, and nobody is throttled before the  *)
(* places are taken.                                                       *)
(***************************************************************************)
EXTENDS Mcp, SequenceTheorems, FiniteSetTheorems, TLAPS

Shown  == {Form[v] : v \in Versions}
Work   == Kinds \cup {"mcp", "sandbox"}
States == {"asked", "running", "ended", "killed", "refused"}
Phases == {"begin", "rank", "resolve", "gate", "run", "search", "calls"}

Record ==
  [fn : Work, pin : 0..MaxVersion, form : Shown, st : States, phase : Phases,
   tries : Nat, first : Nat \ {0}, born : Nat, ver : 0..MaxVersion, left : Int,
   status : Nat, ok : Nat, bad : Nat, late : BOOLEAN]

(* A call that is pinned keeps the form of its pin, and resolves to it.    *)
FitsItsPin(r) ==
  r.fn = "call" /\ r.pin # 0 =>
    /\ r.form = Form[r.pin]
    /\ r.phase = "gate" => r.ver = r.pin

(* What a search found has the form it was found with.                     *)
ShowsForms(r) ==
  r.fn = "search" /\ r.status = 200 => r.ver \in Versions /\ r.form = Form[r.ver]

(* Whoever waits for a place has everything before him; whoever got it     *)
(* with the key suspended does not come past Verify.                       *)
StaysOut(r, key) ==
  /\ r.st = "asked" => r.phase = "begin"
  /\ r.late /\ r.st = "running" => key
  /\ r.late /\ r.st = "running" /\ r.fn \in {"search", "call"} => r.phase = "begin"

Fine(r, key) == r \in Record /\ FitsItsPin(r) /\ ShowsForms(r) /\ StaysOut(r, key)

(* The endpoint's own invocations are of mcp-fn. *)
AtTheEndpoint(n, r) == Len(n) = 1 => r.fn = "mcp"

(* The paths are a forest: a group exists, and whoever is below exists and *)
(* was asked for.                                                          *)
Paths  == \A n \in Nodes : n \in Seq(Nat) /\ n # <<>>
Rooted == \A n \in Nodes : <<n[1]>> \in Nodes
Linked == \A n \in Nodes, i \in Nat :
            Append(n, i) \in Nodes => i =< inv[n].born
Asks   == \A n \in Nodes : Group(n) \subseteq Nodes
Upward == \A n \in Seq(Nat), i \in Nat : n # <<>> /\ Append(n, i) \in Nodes => n \in Nodes
Forest == Paths /\ Rooted /\ Linked /\ Asks /\ Upward

IInv ==
  /\ Forest
  /\ \A n \in Nodes : Fine(inv[n], suspended) /\ AtTheEndpoint(n, inv[n])
  /\ newest \in Versions
  /\ suspended \in BOOLEAN
  /\ script \in Scripts
  /\ \A shown \in known : shown.ver \in Versions /\ shown.form = Form[shown.ver]

-----------------------------------------------------------------------------
(* Paths. *)

LEMMA ChildOf ==
  ASSUME NEW n \in Seq(Nat), NEW i \in Nat
  PROVE  /\ Append(n, i) \in Seq(Nat) /\ Append(n, i) # <<>> /\ Append(n, i) # n
         /\ Len(Append(n, i)) = Len(n) + 1
         /\ Last(Append(n, i)) = i
         /\ n # <<>> => Append(n, i)[1] = n[1] /\ Append(n, i) # <<Append(n, i)[1]>>
<1>1. Len(n) \in Nat
  BY LenProperties
<1>2. /\ Append(n, i) \in Seq(Nat) /\ Append(n, i) # <<>>
      /\ Len(Append(n, i)) = Len(n) + 1
      /\ \A j \in 1..Len(n) : Append(n, i)[j] = n[j]
      /\ Append(n, i)[Len(n) + 1] = i
  BY AppendProperties
<1>3. n # <<>> => Len(n) > 0
  BY <1>1, EmptySeq
<1>4. Len(<<Append(n, i)[1]>>) = 1
  OBVIOUS
<1> QED
  BY <1>1, <1>2, <1>3, <1>4 DEF Last

LEMMA OneParent ==
  ASSUME NEW n \in Seq(Nat), NEW m \in Seq(Nat), NEW i \in Nat, NEW j \in Nat,
         Append(n, i) = Append(m, j)
  PROVE  n = m /\ i = j
BY AppendInjective

LEMMA GrandchildBelow ==
  ASSUME NEW n \in Seq(Nat), NEW i \in Nat, NEW j \in Nat
  PROVE  IsStrictPrefix(n, Append(Append(n, i), j))
<1> DEFINE c == Append(n, i)
           g == Append(c, j)
<1>1. Len(n) \in Nat
  BY LenProperties
<1>2. c \in Seq(Nat) /\ Len(c) = Len(n) + 1 /\ \A k \in 1..Len(n) : c[k] = n[k]
  BY AppendProperties
<1>3. g \in Seq(Nat) /\ Len(g) = Len(n) + 2 /\ \A k \in 1..Len(n) : g[k] = n[k]
  BY <1>1, <1>2, AppendProperties
<1>4. g # n
  BY <1>1, <1>3
<1>5. SubSeq(n, 1, Len(n)) = SubSeq(g, 1, Len(n))
  BY <1>1, <1>3
<1> QED
  BY <1>1, <1>3, <1>4, <1>5 DEF IsStrictPrefix, IsPrefix

LEMMA Kin ==
  ASSUME Forest, NEW n \in Nodes
  PROVE  /\ n \in Seq(Nat) /\ n # <<>>
         /\ Group(n) \subseteq Nodes
         /\ <<n[1]>> \in Nodes
BY DEF Forest, Paths, Asks, Rooted

(* Whoever changes one record, and not whom its owner asks for, leaves the *)
(* forest as it was.                                                       *)
LEMMA ForestStays ==
  ASSUME Forest, NEW n \in Nodes, NEW r,
         r.first = inv[n].first, r.born = inv[n].born,
         inv' = [inv EXCEPT ![n] = r]
  PROVE  Forest'
<1>1. Nodes' = Nodes
  BY DEF Nodes
<1>2. \A m \in Nodes : inv'[m].born = inv[m].born /\ inv'[m].first = inv[m].first
  BY DEF Nodes
<1>3. \A m \in Nodes : Group(m)' = Group(m)
  BY <1>2 DEF Group
<1>4. Paths' /\ Rooted' /\ Upward'
  BY <1>1 DEF Forest, Paths, Rooted, Upward
<1>5. Linked'
  BY <1>1, <1>2 DEF Forest, Linked
<1>6. Asks'
  BY <1>1, <1>3 DEF Forest, Asks
<1> QED
  BY <1>4, <1>5, <1>6 DEF Forest

(* Nothing below n is left behind when its group is forgotten.             *)
Forgets(n, gone, base) ==
  \/ gone = Group(n) /\ base = inv[n].first - 1 /\ (gone = {} \/ Below(n) = Group(n))
  \/ gone = {} /\ base = inv[n].born

Children(n, base, jobs) == {Append(n, base + i) : i \in 1..Len(jobs)}

Unborn(job) == job.first = 1 /\ job.born = 0

LEMMA ForestMoves ==
  ASSUME Forest, NEW n \in Nodes,
         \A m \in Nodes : inv[m].first \in Nat \ {0} /\ inv[m].born \in Nat,
         NEW gone, NEW base, Forgets(n, gone, base),
         NEW jobs, Len(jobs) \in Nat,
         DOMAIN inv' = (Nodes \ gone) \cup Children(n, base, jobs),
         inv'[n].first = base + 1, inv'[n].born = base + Len(jobs),
         \A m \in Children(n, base, jobs) : Unborn(inv'[m]),
         \A m \in Nodes \ gone : m # n /\ m \notin Children(n, base, jobs) => inv'[m] = inv[m]
  PROVE  Forest'
<1> DEFINE kids == Children(n, base, jobs)
<1>1. base \in Nat
  BY DEF Forgets
<1>2. /\ n \in Seq(Nat) /\ n # <<>>
      /\ Nodes' = (Nodes \ gone) \cup kids
      /\ n \in Nodes'
  <2>1. \A i \in Nat : Append(n, i) # n
    BY Kin, ChildOf
  <2>2. n \notin gone
    BY <2>1 DEF Forgets, Group
  <2>3. Nodes' = (Nodes \ gone) \cup kids
    BY DEF Nodes
  <2> QED
    BY <2>2, <2>3, Kin
<1>3. \A m \in kids : \E i \in 1..Len(jobs) : m = Append(n, base + i) /\ base + i \in Nat
  BY <1>1 DEF Children
<1>4. \A m \in kids : /\ m \in Seq(Nat) /\ m # <<>> /\ m # n /\ m[1] = n[1] /\ m # <<m[1]>>
                      /\ Unborn(inv'[m])
  <2> TAKE m \in kids
  <2>1. PICK i \in 1..Len(jobs) : m = Append(n, base + i) /\ base + i \in Nat
    BY <1>3
  <2> QED
    BY <2>1, <1>2, ChildOf
<1>5. \A m \in Nodes \ gone : m # n /\ m \notin kids => inv'[m] = inv[m]
  OBVIOUS
<1>6. \A m \in gone : \E i \in inv[n].first..inv[n].born : m = Append(n, i) /\ i \in Nat
  BY DEF Forgets, Group
<1>7. \A m \in Seq(Nat), i \in Nat : Append(m, i) \in kids => m = n
  <2> TAKE m \in Seq(Nat), i \in Nat
  <2> HAVE Append(m, i) \in kids
  <2>1. PICK k \in 1..Len(jobs) : Append(m, i) = Append(n, base + k) /\ base + k \in Nat
    BY <1>3
  <2> QED
    BY <2>1, <1>2, OneParent
<1>8. \A m \in Seq(Nat), i \in Nat : Append(m, i) \in gone => m = n
  <2> TAKE m \in Seq(Nat), i \in Nat
  <2> HAVE Append(m, i) \in gone
  <2>1. PICK j \in inv[n].first..inv[n].born : Append(m, i) = Append(n, j) /\ j \in Nat
    BY <1>6
  <2> QED
    BY <2>1, <1>2, OneParent
<1>9. \A m \in gone : m # n /\ m # <<m[1]>> /\ m \in Seq(Nat)
  <2> TAKE m \in gone
  <2>1. PICK j \in inv[n].first..inv[n].born : m = Append(n, j) /\ j \in Nat
    BY <1>6
  <2> QED
    BY <2>1, <1>2, ChildOf
(* Nothing is below what is forgotten. *)
<1>10. \A m \in gone, i \in Nat : Append(m, i) \notin Nodes
  <2> SUFFICES ASSUME NEW m \in gone, NEW i \in Nat, Append(m, i) \in Nodes
               PROVE  FALSE
    OBVIOUS
  <2>1. PICK j \in inv[n].first..inv[n].born : m = Append(n, j) /\ j \in Nat
    BY <1>6
  <2>2. Below(n) = Group(n) /\ gone = Group(n)
    BY DEF Forgets
  <2>3. Append(m, i) \in Below(n)
    BY <2>1, <1>2, GrandchildBelow DEF Below
  <2> QED
    BY <2>2, <2>3, <1>8, <1>9
<1>11. Paths'
  BY <1>2, <1>4 DEF Forest, Paths
<1>12. Rooted'
  <2>1. \A m \in Nodes : <<m[1]>> \in Nodes \ gone
    <3> TAKE m \in Nodes
    <3>1. <<m[1]>> \in Nodes
      BY Kin
    <3>2. <<m[1]>> = << <<m[1]>>[1] >>
      OBVIOUS
    <3> QED
      BY <3>1, <3>2, <1>9
  <2> QED
    BY <2>1, <1>2, <1>4 DEF Rooted
<1>13. Linked'
  <2> SUFFICES ASSUME NEW m \in Nodes', NEW i \in Nat, Append(m, i) \in Nodes'
               PROVE  i =< inv'[m].born
    BY DEF Linked
  <2>1. CASE m = n
    <3>1. CASE Append(n, i) \in kids
      <4>1. PICK k \in 1..Len(jobs) : Append(n, i) = Append(n, base + k) /\ base + k \in Nat
        BY <3>1, <1>3
      <4>2. i = base + k
        BY <4>1, <1>2, OneParent
      <4> QED
        BY <4>2, <1>1, <1>2, <2>1
    <3>2. CASE Append(n, i) \in Nodes \ gone
      <4>1. i =< inv[n].born
        BY <3>2 DEF Forest, Linked
      <4>2. gone = Group(n) => ~(i \in inv[n].first..inv[n].born)
        BY <3>2 DEF Group
      <4>3. i =< base
        BY <4>1, <4>2 DEF Forgets
      <4> QED
        BY <4>3, <1>1, <1>2, <2>1
    <3> QED
      BY <3>1, <3>2, <1>2, <2>1
  <2>2. CASE m # n /\ m \in kids
    <3>1. m \in Seq(Nat) /\ m # <<>>
      BY <2>2, <1>4
    <3>2. Append(m, i) \in Nodes
      BY <2>2, <3>1, <1>2, <1>7
    <3>3. m \in Nodes
      BY <3>1, <3>2 DEF Forest, Upward
    <3>4. PICK k \in 1..Len(jobs) : m = Append(n, base + k) /\ base + k \in Nat
      BY <2>2, <1>3
    <3>5. base + k =< inv[n].born
      BY <3>3, <3>4 DEF Forest, Linked
    <3>6. gone = Group(n) /\ base = inv[n].first - 1
      BY <3>5, <1>1 DEF Forgets
    <3>7. base + k \in inv[n].first..inv[n].born
      BY <3>5, <3>6
    <3>8. m \in Group(n)
      BY <3>4, <3>7 DEF Group
    <3> QED
      BY <3>2, <3>6, <3>8, <1>10
  <2>3. CASE m # n /\ m \notin kids
    <3>1. m \in Nodes /\ inv'[m] = inv[m] /\ m \in Seq(Nat)
      BY <2>3, <1>2, <1>5, Kin
    <3>2. Append(m, i) \in Nodes
      BY <2>3, <3>1, <1>2, <1>7
    <3> QED
      BY <3>1, <3>2 DEF Forest, Linked
  <2> QED
    BY <2>1, <2>2, <2>3
<1>14. Asks'
  <2> SUFFICES ASSUME NEW m \in Nodes' PROVE Group(m)' \subseteq Nodes'
    BY DEF Asks
  <2>1. CASE m = n
    <3> SUFFICES ASSUME NEW i \in (base + 1)..(base + Len(jobs)) PROVE Append(n, i) \in kids
      BY <2>1, <1>2 DEF Group
    <3>1. i - base \in 1..Len(jobs) /\ base + (i - base) = i
      BY <1>1
    <3> QED
      BY <3>1 DEF Children
  <2>2. CASE m # n /\ m \in kids
    BY <2>2, <1>4 DEF Group, Unborn
  <2>3. CASE m # n /\ m \notin kids
    <3>1. m \in Nodes /\ inv'[m] = inv[m] /\ m \in Seq(Nat)
      BY <2>3, <1>2, <1>5, Kin
    <3>2. Group(m)' = Group(m) /\ Group(m) \subseteq Nodes
      BY <3>1, Kin DEF Group
    <3>3. \A g \in Group(m) : g \notin gone
      <4> TAKE g \in Group(m)
      <4>1. PICK i \in inv[m].first..inv[m].born : g = Append(m, i)
        BY DEF Group
      <4>2. i \in Nat
        BY <2>3, <3>1, <1>2
      <4> QED
        BY <2>3, <3>1, <4>1, <4>2, <1>8
    <3> QED
      BY <3>2, <3>3, <1>2
  <2> QED
    BY <2>1, <2>2, <2>3
<1>15. Upward'
  <2> SUFFICES ASSUME NEW m \in Seq(Nat), NEW i \in Nat, m # <<>>, Append(m, i) \in Nodes'
               PROVE  m \in Nodes'
    BY DEF Upward
  <2>1. CASE Append(m, i) \in kids
    BY <2>1, <1>2, <1>7
  <2>2. CASE Append(m, i) \in Nodes
    <3>1. m \in Nodes
      BY <2>2 DEF Forest, Upward
    <3> QED
      BY <3>1, <2>2, <1>2, <1>10
  <2> QED
    BY <2>1, <2>2, <1>2
<1> QED
  BY <1>11, <1>12, <1>13, <1>14, <1>15 DEF Forest

-----------------------------------------------------------------------------
(* What a step of n makes of the invocations. *)

(* n runs or waits for a place. *)
Under(n) == inv[n].st \in {"asked", "running"}

Good == Forest /\ \A n \in Nodes : Fine(inv[n], suspended) /\ AtTheEndpoint(n, inv[n])

(* They stay good, and nobody who began suspended records anything. *)
Carries ==
  /\ Forest'
  /\ \A m \in Nodes' : Fine(inv'[m], suspended) /\ AtTheEndpoint(m, inv'[m])
  /\ \A m \in Running : inv[m].late =>
       m \in Nodes' /\ inv'[m].ok = inv[m].ok /\ inv'[m].bad = inv[m].bad

(* The record of n may become r. *)
MayBecome(n, r) ==
  /\ Fine(r, suspended)
  /\ r.fn = inv[n].fn
  /\ inv[n].st = "running" /\ inv[n].late => r.ok = inv[n].ok /\ r.bad = inv[n].bad

LEMMA Typed ==
  ASSUME Good
  PROVE  \A m \in Nodes : inv[m].first \in Nat \ {0} /\ inv[m].born \in Nat
BY DEF Good, Fine, Record

LEMMA Changes ==
  ASSUME Good, NEW n \in Nodes, NEW r, MayBecome(n, r),
         r.first = inv[n].first, r.born = inv[n].born,
         inv' = [inv EXCEPT ![n] = r]
  PROVE  Carries
<1>1. Forest'
  BY ForestStays DEF Good
<1>2. Nodes' = Nodes /\ inv'[n] = r /\ \A m \in Nodes : m # n => inv'[m] = inv[m]
  BY DEF Nodes
<1>3. \A m \in Nodes' : Fine(inv'[m], suspended) /\ AtTheEndpoint(m, inv'[m])
  BY <1>2 DEF Good, MayBecome, AtTheEndpoint
<1>4. \A m \in Running : inv[m].late =>
        m \in Nodes' /\ inv'[m].ok = inv[m].ok /\ inv'[m].bad = inv[m].bad
  BY <1>2 DEF Running, MayBecome
<1> QED
  BY <1>1, <1>3, <1>4 DEF Carries

(* What the place of a group in a record has to do with. *)
Same(s, r) ==
  /\ s.fn = r.fn /\ s.pin = r.pin /\ s.form = r.form /\ s.st = r.st /\ s.phase = r.phase
  /\ s.tries = r.tries /\ s.ver = r.ver /\ s.status = r.status /\ s.ok = r.ok /\ s.bad = r.bad /\ s.late = r.late

LEMMA Placed ==
  ASSUME NEW r \in Record, NEW first \in Nat \ {0}, NEW born \in Nat
  PROVE  LET s == [r EXCEPT !.first = first, !.born = born]
         IN  s \in Record /\ s.first = first /\ s.born = born /\ Same(s, r)
BY DEF Record, Same

LEMMA SameMayBecome ==
  ASSUME NEW n \in Nodes, NEW r, MayBecome(n, r), NEW s \in Record, Same(s, r)
  PROVE  MayBecome(n, s)
BY DEF MayBecome, Fine, FitsItsPin, ShowsForms, StaysOut, Same

LEMMA MovedIsFine ==
  ASSUME Good, NEW n \in Nodes, NEW r \in Record
  PROVE  /\ Moved(n, r) \in Record /\ Same(Moved(n, r), r)
         /\ \E base \in Nat : /\ Forgets(n, Past(n), base)
                              /\ Moved(n, r).first = base + 1 /\ Moved(n, r).born = base
<1> DEFINE base == IF Past(n) = Group(n) THEN inv[n].first - 1 ELSE inv[n].born
<1>1. base \in Nat
  BY Typed
<1>2. Forgets(n, Past(n), base)
  BY DEF Forgets, Past
<1>3. Moved(n, r) = [r EXCEPT !.first = base + 1, !.born = base]
  BY DEF Moved
<1> HIDE DEF base
<1>4. base + 1 \in Nat \ {0}
  BY <1>1
<1>5. /\ Moved(n, r) \in Record /\ Same(Moved(n, r), r)
      /\ Moved(n, r).first = base + 1 /\ Moved(n, r).born = base
  <2> DEFINE s == [r EXCEPT !.first = base + 1, !.born = base]
  <2>1. s \in Record /\ s.first = base + 1 /\ s.born = base /\ Same(s, r)
    BY <1>1, <1>4, Placed
  <2> HIDE DEF s
  <2> QED
    BY <1>3, <2>1 DEF s
<1> QED
  BY <1>1, <1>2, <1>5

(* Nobody who runs, or waits for a place, is forgotten, or taken for a     *)
(* child of n.                                                             *)
LEMMA Survive ==
  ASSUME Good, NEW n \in Nodes, NEW m \in Nodes, Under(m), m # n,
         NEW base \in Nat, Forgets(n, Past(n), base), NEW jobs
  PROVE  m \notin Past(n) /\ m \notin Children(n, base, jobs)
<1>1. Past(n) # {} => Past(n) = Group(n) /\ Settled(n)
  BY DEF Past
<1>2. m \notin Past(n)
  BY <1>1 DEF Settled, Under
<1>3. m \notin Children(n, base, jobs)
  <2> SUFFICES ASSUME m \in Children(n, base, jobs) PROVE FALSE
    OBVIOUS
  <2>1. PICK i \in 1..Len(jobs) : m = Append(n, base + i)
    BY DEF Children
  <2>2. i \in Nat /\ i >= 1 /\ base + i \in Nat
    OBVIOUS
  <2>3. base + i =< inv[n].born
    BY <2>1, <2>2 DEF Good, Forest, Linked
  <2>4. inv[n].first \in Nat /\ inv[n].born \in Nat
    BY Typed
  <2>5. Past(n) = Group(n) /\ base = inv[n].first - 1
    BY <2>2, <2>3, <2>4 DEF Forgets
  <2>6. base + i \in inv[n].first..inv[n].born
    BY <2>2, <2>3, <2>4, <2>5
  <2>7. m \in Group(n)
    BY <2>1, <2>6 DEF Group
  <2> QED
    BY <1>2, <2>5, <2>7
<1> QED
  BY <1>2, <1>3

(* n goes on with this record: its group is forgotten or not, and the jobs *)
(* are its children.                                                       *)
Goes(n, base, next, jobs) ==
  /\ base \in Nat /\ Forgets(n, Past(n), base)
  /\ next.first = base + 1 /\ next.born = base + Len(jobs)
  /\ n \notin Past(n) /\ inv'[n] = next
  /\ Nodes' = (Nodes \ Past(n)) \cup Children(n, base, jobs)
  /\ \A m \in Children(n, base, jobs) :
       /\ m # n /\ Len(m) = Len(n) + 1
       /\ \E i \in 1..Len(jobs) : m = Append(n, base + i) /\ inv'[m] = jobs[i]
  /\ \A m \in Nodes \ Past(n) : m # n /\ m \notin Children(n, base, jobs) => inv'[m] = inv[m]

LEMMA GoesOn ==
  ASSUME Good, NEW n \in Nodes, NEW base, NEW next, MayBecome(n, next),
         NEW jobs, Len(jobs) \in Nat,
         \A i \in 1..Len(jobs) : Fine(jobs[i], suspended) /\ Unborn(jobs[i]),
         Goes(n, base, next, jobs)
  PROVE  Carries
<1> DEFINE kids == Children(n, base, jobs)
<1>1. /\ base \in Nat /\ Forgets(n, Past(n), base)
      /\ next.first = base + 1 /\ next.born = base + Len(jobs)
      /\ n \notin Past(n) /\ inv'[n] = next
      /\ Nodes' = (Nodes \ Past(n)) \cup kids
      /\ \A m \in Nodes \ Past(n) : m # n /\ m \notin kids => inv'[m] = inv[m]
  BY DEF Goes
<1>2. \A m \in kids : /\ m # n /\ Len(m) = Len(n) + 1
                      /\ \E i \in 1..Len(jobs) : m = Append(n, base + i) /\ inv'[m] = jobs[i]
  BY DEF Goes
<1>3. n \in Seq(Nat) /\ n # <<>>
  BY Kin DEF Good
<1>4. Forest'
  <2>1. \A m \in kids : Unborn(inv'[m])
    BY <1>2
  <2>2. DOMAIN inv' = (Nodes \ Past(n)) \cup kids
    BY <1>1 DEF Nodes
  <2>3. \A m \in Nodes : inv[m].first \in Nat \ {0} /\ inv[m].born \in Nat
    BY Typed
  <2> QED
    BY <1>1, <2>1, <2>2, <2>3, ForestMoves DEF Good
<1>5. \A m \in Nodes' : Fine(inv'[m], suspended) /\ AtTheEndpoint(m, inv'[m])
  <2> TAKE m \in Nodes'
  <2>1. CASE m = n
    BY <1>1, <2>1 DEF Good, MayBecome, AtTheEndpoint
  <2>2. CASE m \in kids
    <3>1. Len(m) # 1
      BY <1>2, <1>3, <2>2, EmptySeq, LenProperties
    <3> QED
      BY <1>2, <2>2, <3>1 DEF AtTheEndpoint
  <2>3. CASE m # n /\ m \notin kids
    BY <1>1, <2>3 DEF Good
  <2> QED
    BY <2>1, <2>2, <2>3
<1>6. \A m \in Running : inv[m].late =>
        m \in Nodes' /\ inv'[m].ok = inv[m].ok /\ inv'[m].bad = inv[m].bad
  <2> TAKE m \in Running
  <2>1. m \in Nodes /\ Under(m)
    BY DEF Running, Under
  <2>2. CASE m = n
    BY <1>1, <2>2 DEF MayBecome, Running
  <2>3. CASE m # n
    BY <1>1, <2>1, <2>3, Survive
  <2> QED
    BY <2>2, <2>3
<1> QED
  BY <1>4, <1>5, <1>6 DEF Carries

LEMMA SpawnGoes ==
  ASSUME Good, NEW n \in Nodes, NEW r \in Record, NEW jobs, Len(jobs) \in Nat, Spawn(n, r, jobs)
  PROVE  \E base \in Nat, next \in Record : Same(next, r) /\ Goes(n, base, next, jobs)
<1>1. PICK base \in Nat : /\ Forgets(n, Past(n), base)
                          /\ Moved(n, r).first = base + 1 /\ Moved(n, r).born = base
  BY MovedIsFine
<1> DEFINE moved == Moved(n, r)
           kids  == Children(n, base, jobs)
           next  == [moved EXCEPT !.born = @ + Len(jobs)]
<1>2. moved \in Record /\ Same(moved, r)
  BY MovedIsFine
<1>3. next \in Record /\ next.first = base + 1 /\ next.born = base + Len(jobs) /\ Same(next, moved)
  <2>1. moved.born + Len(jobs) = base + Len(jobs) /\ base + Len(jobs) \in Nat
    BY <1>1
  <2>2. next = [moved EXCEPT !.born = base + Len(jobs)]
    BY <2>1
  <2>3. next \in Record /\ next.first = base + 1 /\ next.born = base + Len(jobs)
    BY <1>1, <1>2, <2>1, <2>2 DEF Record
  <2>4. Same(next, moved)
    BY <1>2, <2>2 DEF Record, Same
  <2> QED
    BY <2>3, <2>4
<1>4. Same(next, r)
  <2> HIDE DEF next, moved
  <2> QED
    BY <1>2, <1>3 DEF Same
<1>5. kids = {Append(n, moved.born + i) : i \in 1..Len(jobs)}
  BY <1>1 DEF Children
<1>6. inv' = [m \in (Nodes \ Past(n)) \cup kids |->
                CASE m = n      -> next
                  [] m \in kids -> jobs[Last(m) - base]
                  [] OTHER      -> inv[m]]
  BY <1>1, <1>5 DEF Spawn
<1> HIDE DEF next, moved
<1>7. n \in Seq(Nat) /\ n # <<>>
  BY Kin DEF Good
<1>8. \A m \in kids : /\ m # n /\ Len(m) = Len(n) + 1
                      /\ \E i \in 1..Len(jobs) : m = Append(n, base + i) /\ Last(m) - base = i
  <2> TAKE m \in kids
  <2>1. PICK i \in 1..Len(jobs) : m = Append(n, base + i) /\ base + i \in Nat
    BY DEF Children
  <2>2. m # n /\ Len(m) = Len(n) + 1 /\ Last(m) = base + i
    BY <1>7, <2>1, ChildOf
  <2> QED
    BY <2>1, <2>2
<1>9. n \in Nodes \ Past(n)
  <2>1. \A i \in Nat : Append(n, i) # n
    BY <1>7, ChildOf
  <2> QED
    BY <2>1, Typed DEF Past, Group
<1>10. Nodes' = (Nodes \ Past(n)) \cup kids
  BY <1>6 DEF Nodes
<1>11. inv'[n] = next
  <2>1. inv'[n] = CASE n = n      -> next
                    [] n \in kids -> jobs[Last(n) - base]
                    [] OTHER      -> inv[n]
    BY <1>6, <1>9
  <2> QED
    BY <1>8, <2>1
<1>12. \A m \in kids : \E i \in 1..Len(jobs) : m = Append(n, base + i) /\ inv'[m] = jobs[i]
  <2> TAKE m \in kids
  <2>1. PICK i \in 1..Len(jobs) : m = Append(n, base + i) /\ Last(m) - base = i
    BY <1>8
  <2>2. inv'[m] = jobs[i]
    BY <1>6, <1>8, <2>1
  <2> QED
    BY <2>1, <2>2
<1>13. \A m \in Nodes \ Past(n) : m # n /\ m \notin kids => inv'[m] = inv[m]
  BY <1>6
<1>14. Goes(n, base, next, jobs)
  BY <1>1, <1>3, <1>8, <1>9, <1>10, <1>11, <1>12, <1>13 DEF Goes
<1> QED
  BY <1>3, <1>4, <1>14

(* n goes on. *)
LEMMA Spawns ==
  ASSUME Good, NEW n \in Nodes, NEW r, MayBecome(n, r),
         NEW jobs, Len(jobs) \in Nat,
         \A i \in 1..Len(jobs) : Fine(jobs[i], suspended) /\ Unborn(jobs[i]),
         Spawn(n, r, jobs)
  PROVE  Carries
<1>1. r \in Record
  BY DEF MayBecome, Fine
<1>2. PICK base \in Nat, next \in Record : Same(next, r) /\ Goes(n, base, next, jobs)
  BY <1>1, SpawnGoes
<1> QED
  BY <1>2, SameMayBecome, GoesOn

(* n returns. *)
MayEnd(n, r, status) ==
  /\ r \in Record
  /\ MayBecome(n, [r EXCEPT !.st = "ended", !.status = status, !.phase = "begin"])

LEMMA EndedAlike ==
  ASSUME NEW r \in Record, NEW moved \in Record, Same(moved, r), NEW status \in Nat
  PROVE  LET ended == [moved EXCEPT !.st = "ended", !.status = status, !.phase = "begin"]
         IN  /\ ended \in Record /\ ended.first = moved.first /\ ended.born = moved.born
             /\ Same(ended, [r EXCEPT !.st = "ended", !.status = status, !.phase = "begin"])
BY DEF Record, Same, States, Phases

LEMMA EndsFine ==
  ASSUME NEW n \in Nodes, NEW r \in Record, r.fn = inv[n].fn, NEW status \in Nat,
         r.fn = "call" /\ r.pin # 0 => r.form = Form[r.pin],
         r.fn = "search" /\ status = 200 => r.ver \in Versions /\ r.form = Form[r.ver],
         inv[n].st = "running" /\ inv[n].late => r.ok = inv[n].ok /\ r.bad = inv[n].bad
  PROVE  MayEnd(n, r, status)
<1> DEFINE s == [r EXCEPT !.st = "ended", !.status = status, !.phase = "begin"]
<1>1. s \in Record
  BY DEF Record, States, Phases
<1>2. /\ s.fn = r.fn /\ s.pin = r.pin /\ s.form = r.form /\ s.ver = r.ver
      /\ s.ok = r.ok /\ s.bad = r.bad
      /\ s.st = "ended" /\ s.status = status /\ s.phase = "begin"
  BY DEF Record
<1> HIDE DEF s
<1>3. MayBecome(n, s)
  BY <1>1, <1>2 DEF MayBecome, Fine, FitsItsPin, ShowsForms, StaysOut
<1> QED
  BY <1>3 DEF MayEnd, s

LEMMA ReturnGoes ==
  ASSUME Good, NEW n \in Nodes, NEW r \in Record, NEW status \in Nat, Returned(n, r, status)
  PROVE  \E base \in Nat, next \in Record :
           /\ Same(next, [r EXCEPT !.st = "ended", !.status = status, !.phase = "begin"])
           /\ Goes(n, base, next, <<>>)
<1>1. PICK base \in Nat : /\ Forgets(n, Past(n), base)
                          /\ Moved(n, r).first = base + 1 /\ Moved(n, r).born = base
  BY MovedIsFine
<1> DEFINE ended == [Moved(n, r) EXCEPT !.st = "ended", !.status = status, !.phase = "begin"]
<1>2. Moved(n, r) \in Record /\ Same(Moved(n, r), r)
  BY MovedIsFine
<1>3. /\ ended \in Record /\ ended.first = base + 1 /\ ended.born = base
      /\ Same(ended, [r EXCEPT !.st = "ended", !.status = status, !.phase = "begin"])
  BY <1>1, <1>2, EndedAlike
<1>4. inv' = [m \in Nodes \ Past(n) |-> IF m = n THEN ended ELSE inv[m]]
  BY DEF Returned
<1> HIDE DEF ended
<1>5. n \in Nodes \ Past(n)
  <2>1. \A i \in Nat : Append(n, i) # n
    BY Kin, ChildOf DEF Good
  <2> QED
    BY <2>1, Typed DEF Past, Group
<1>6. Len(<<>>) = 0 /\ Children(n, base, <<>>) = {}
  BY DEF Children
<1>7. /\ Nodes' = (Nodes \ Past(n)) \cup Children(n, base, <<>>)
      /\ inv'[n] = ended
      /\ \A m \in Nodes \ Past(n) : m # n => inv'[m] = inv[m]
  BY <1>4, <1>5, <1>6 DEF Nodes
<1>8. Goes(n, base, ended, <<>>)
  BY <1>1, <1>3, <1>5, <1>6, <1>7 DEF Goes
<1> QED
  BY <1>3, <1>8

LEMMA Returns ==
  ASSUME Good, NEW n \in Nodes, NEW r, NEW status \in Nat, MayEnd(n, r, status),
         Returned(n, r, status)
  PROVE  Carries
<1>1. PICK base \in Nat, next \in Record :
        /\ Same(next, [r EXCEPT !.st = "ended", !.status = status, !.phase = "begin"])
        /\ Goes(n, base, next, <<>>)
  BY ReturnGoes DEF MayEnd
<1>2. MayBecome(n, next)
  BY <1>1, SameMayBecome DEF MayEnd
<1>3. Len(<<>>) = 0 /\ 1..0 = {}
  OBVIOUS
<1> QED
  BY <1>1, <1>2, <1>3, GoesOn

-----------------------------------------------------------------------------
(* What is asked for is fine. *)

LEMMA Asking ==
  ASSUME NEW fn \in Work, NEW pin \in 0..MaxVersion, NEW form \in Shown,
         fn = "call" /\ pin # 0 => form = Form[pin]
  PROVE  Fine(Job(fn, pin, form), suspended) /\ Unborn(Job(fn, pin, form))
<1>1. 0 \in 0..MaxVersion
  BY CatalogAssumption
<1>2. Job(fn, pin, form) \in Record
  BY <1>1 DEF Record, Job, States, Phases
<1>3. FitsItsPin(Job(fn, pin, form)) /\ ShowsForms(Job(fn, pin, form))
  BY DEF FitsItsPin, ShowsForms, Job
<1>4. StaysOut(Job(fn, pin, form), suspended) /\ Unborn(Job(fn, pin, form))
  BY DEF StaysOut, Unborn, Job
<1> QED
  BY <1>2, <1>3, <1>4 DEF Fine

LEMMA FirstForm == Form[1] \in Shown /\ 0 \in 0..MaxVersion
BY CatalogAssumption DEF Shown, Versions

-----------------------------------------------------------------------------
(* One lemma per step: what n becomes is fine. *)

LEMMA BeginCarries ==
  ASSUME Good, NEW n \in Nodes, suspended \in BOOLEAN, Begin(n)
  PROVE  Carries
<1> DEFINE r == [inv[n] EXCEPT !.st = "running", !.late = suspended]
<1>1. Fine(inv[n], suspended) /\ inv[n].st = "asked"
  BY DEF Good, Begin, Admit
<1>2. r \in Record /\ r.first = inv[n].first /\ r.born = inv[n].born
  BY <1>1 DEF Fine, Record, States
<1>3. MayBecome(n, r)
  BY <1>1, <1>2 DEF MayBecome, Fine, Record, FitsItsPin, ShowsForms, StaysOut
<1>4. inv' = [inv EXCEPT ![n] = r]
  BY DEF Begin, Admit, Set
<1> HIDE DEF r
<1> QED
  BY <1>2, <1>3, <1>4, Changes

LEMMA AsksAgain ==
  ASSUME NEW r \in Record
  PROVE  LET s == [r EXCEPT !.st = "asked", !.phase = "begin", !.tries = @ + 1]
         IN  s \in Record /\ s.first = r.first /\ s.born = r.born
<1>1. r.tries + 1 \in Nat
  BY DEF Record
<1> DEFINE s == [r EXCEPT !.st = "asked", !.phase = "begin", !.tries = r.tries + 1]
<1>2. s \in Record
  BY <1>1 DEF Record, States, Phases
<1>3. s.first = r.first /\ s.born = r.born
  BY DEF Record
<1> QED
  BY <1>2, <1>3

LEMMA AgainIsFine ==
  ASSUME Good, NEW n \in Nodes, inv[n].st \in {"asked", "ended"}
  PROVE  /\ MayBecome(n, Again(inv[n]))
         /\ Again(inv[n]).first = inv[n].first /\ Again(inv[n]).born = inv[n].born
<1> DEFINE again == [inv[n] EXCEPT !.st = "asked", !.phase = "begin", !.tries = @ + 1]
           never == [inv[n] EXCEPT !.st = "refused"]
<1>1. Fine(inv[n], suspended)
  BY DEF Good
<1>2. again \in Record /\ again.first = inv[n].first /\ again.born = inv[n].born
  BY <1>1, AsksAgain DEF Fine
<1>3. MayBecome(n, again)
  BY <1>1, <1>2 DEF MayBecome, Fine, Record, FitsItsPin, ShowsForms, StaysOut
<1>4. never \in Record /\ never.first = inv[n].first /\ never.born = inv[n].born
  BY <1>1 DEF Fine, Record, States
<1>5. MayBecome(n, never)
  BY <1>1, <1>4 DEF MayBecome, Fine, Record, FitsItsPin, ShowsForms, StaysOut
<1>6. Again(inv[n]) = again \/ Again(inv[n]) = never
  BY DEF Again
<1> HIDE DEF again, never
<1> QED
  BY <1>2, <1>3, <1>4, <1>5, <1>6

LEMMA WaitCarries ==
  ASSUME Good, NEW n \in Nodes, Wait(n)
  PROVE  Carries
<1>1. inv[n].st = "asked" /\ inv' = [inv EXCEPT ![n] = Again(inv[n])]
  BY DEF Wait, Throttle, Set
<1> QED
  BY <1>1, AgainIsFine, Changes

LEMMA LoseReplyCarries ==
  ASSUME Good, NEW n \in Nodes, LoseReply(n)
  PROVE  Carries
<1>1. inv[n].st = "ended" /\ inv' = [inv EXCEPT ![n] = Again(inv[n])]
  BY DEF LoseReply, Lose
<1> QED
  BY <1>1, AgainIsFine, Changes

LEMMA DieCarries ==
  ASSUME Good, NEW n \in Nodes, Die(n)
  PROVE  Carries
<1> DEFINE r == [inv[n] EXCEPT !.st = "killed"]
<1>1. Fine(inv[n], suspended) /\ inv[n].st = "running"
  BY DEF Good, Die, Kill
<1>2. r \in Record /\ r.first = inv[n].first /\ r.born = inv[n].born
  BY <1>1 DEF Fine, Record, States
<1>3. MayBecome(n, r)
  BY <1>1, <1>2 DEF MayBecome, Fine, Record, FitsItsPin, ShowsForms, StaysOut
<1>4. inv' = [inv EXCEPT ![n] = r]
  BY DEF Die, Kill
<1> HIDE DEF r
<1> QED
  BY <1>2, <1>3, <1>4, Changes

(* Whoever runs past "begin" in a search or a call began before.           *)
LEMMA NotLate ==
  ASSUME Good, NEW n \in Nodes, inv[n].st = "running",
         inv[n].fn \in {"search", "call"}, inv[n].phase # "begin"
  PROVE  ~inv[n].late
BY DEF Good, Fine, StaysOut, Record

LEMMA AnsweredCarries ==
  ASSUME Good, NEW p \in Nat, NEW answer, <<p>> \in Nodes, Answered(p, answer)
  PROVE  Carries
<1> DEFINE n == <<p>>
           r == [inv[n] EXCEPT !.st = "ended", !.status = 200]
<1>1. Fine(inv[n], suspended) /\ inv[n].fn = "mcp"
  BY DEF Good, AtTheEndpoint
<1>2. r \in Record /\ r.first = inv[n].first /\ r.born = inv[n].born
  BY <1>1 DEF Fine, Record, States
<1>3. MayBecome(n, r)
  BY <1>1, <1>2 DEF MayBecome, Fine, Record, FitsItsPin, ShowsForms, StaysOut
<1>4. inv' = [inv EXCEPT ![n] = r]
  BY DEF Answered, Set
<1> HIDE DEF r
<1> QED
  BY <1>2, <1>3, <1>4, Changes

LEMMA VerifyCarries ==
  ASSUME Good, NEW n \in Nodes, suspended \in BOOLEAN,
         Verify(n, IF inv[n].fn = "search" THEN "rank" ELSE "resolve")
  PROVE  Carries
<1>1. Fine(inv[n], suspended) /\ inv[n].st = "running" /\ inv[n].fn \in {"search", "call"}
  BY DEF Good, Verify, At
<1>2. CASE Verified(n) /\ Goto(n, IF inv[n].fn = "search" THEN "rank" ELSE "resolve")
  <2> DEFINE r == [inv[n] EXCEPT !.phase = IF inv[n].fn = "search" THEN "rank" ELSE "resolve"]
  <2>1. ~inv[n].late
    BY <1>1, <1>2 DEF Verified, Fine, StaysOut, Record
  <2>2. r \in Record /\ r.first = inv[n].first /\ r.born = inv[n].born
    BY <1>1 DEF Fine, Record, Phases
  <2>3. MayBecome(n, r)
    BY <1>1, <2>1, <2>2 DEF MayBecome, Fine, Record, FitsItsPin, ShowsForms, StaysOut
  <2>4. inv' = [inv EXCEPT ![n] = r]
    BY <1>2 DEF Goto, Set
  <2> HIDE DEF r
  <2> QED
    BY <2>2, <2>3, <2>4, Changes
<1>3. CASE Return(n, inv[n], 403)
  <2>3. MayEnd(n, inv[n], 403)
    BY <1>1, EndsFine DEF Fine, FitsItsPin
  <2> QED
    BY <1>3, <2>3, Returns DEF Return
<1> QED
  BY <1>2, <1>3 DEF Verify

LEMMA RankCarries ==
  ASSUME Good, NEW n \in Nodes, newest \in Versions, Rank(n)
  PROVE  Carries
<1>1. /\ Fine(inv[n], suspended) /\ inv[n].fn = "search"
      /\ inv[n].st = "running" /\ inv[n].phase = "rank"
  BY DEF Good, Rank, At
<1>2. PICK v \in 1..newest :
        Returned(n, [inv[n] EXCEPT !.ver = v, !.form = FormShown(v), !.ok = @ + 1], 200)
  BY DEF Rank, Return
<1> DEFINE r == [inv[n] EXCEPT !.ver = v, !.form = Form[v], !.ok = inv[n].ok + 1]
<1>3. v \in Versions /\ v \in 0..MaxVersion /\ Form[v] \in Shown
  BY CatalogAssumption DEF Versions, Shown
<1>4. inv[n].ok + 1 \in Nat /\ inv[n] \in Record
  BY <1>1 DEF Fine, Record
<1>5. /\ r \in Record /\ r.fn = inv[n].fn /\ r.ver = v /\ r.form = Form[v]
  BY <1>3, <1>4 DEF Record
<1>6. Returned(n, r, 200)
  BY <1>2 DEF FormShown, Return
<1> HIDE DEF r
<1>7. MayEnd(n, r, 200)
  BY <1>1, <1>3, <1>5, NotLate, EndsFine
<1> QED
  BY <1>6, <1>7, Returns

LEMMA ResolveCarries ==
  ASSUME Good, NEW n \in Nodes, newest \in Versions, Resolve(n)
  PROVE  Carries
<1> DEFINE r == [inv[n] EXCEPT !.ver = Resolved(inv[n].pin), !.phase = "gate"]
<1>1. /\ Fine(inv[n], suspended) /\ inv[n].fn = "call"
      /\ inv[n].st = "running" /\ inv[n].phase = "resolve"
  BY DEF Good, Resolve, At
<1>2. /\ Resolved(inv[n].pin) \in 0..MaxVersion
      /\ inv[n].pin # 0 => Resolved(inv[n].pin) = inv[n].pin
  BY <1>1, CatalogAssumption DEF Resolved, Fine, Record, Versions
<1>3. r \in Record /\ r.first = inv[n].first /\ r.born = inv[n].born
  BY <1>1, <1>2 DEF Fine, Record, Phases
<1>4. MayBecome(n, r)
  BY <1>1, <1>2, <1>3, NotLate DEF MayBecome, Fine, Record, FitsItsPin, ShowsForms, StaysOut
<1>5. inv' = [inv EXCEPT ![n] = r]
  BY DEF Resolve, Set
<1> HIDE DEF r
<1> QED
  BY <1>3, <1>4, <1>5, Changes

LEMMA Failed ==
  ASSUME NEW r \in Record, NEW bad \in Nat
  PROVE  LET s == [r EXCEPT !.bad = bad, !.ver = 0, !.left = 0]
         IN  s \in Record /\ s.fn = r.fn /\ s.pin = r.pin /\ s.form = r.form
<1>1. 0 \in 0..MaxVersion
  BY CatalogAssumption
<1> DEFINE t == [r EXCEPT !.bad = bad, !.ver = 0]
<1>2. t \in Record /\ t.fn = r.fn /\ t.pin = r.pin /\ t.form = r.form
  BY <1>1 DEF Record
<1> HIDE DEF t
<1> DEFINE s == [t EXCEPT !.left = 0]
<1>3. s \in Record /\ s.fn = r.fn /\ s.pin = r.pin /\ s.form = r.form
  BY <1>2 DEF Record
<1> QED
  BY <1>3 DEF t

LEMMA FailCarries ==
  ASSUME Good, NEW n \in Nodes, inv[n].fn = "call", ~inv[n].late,
         NEW status \in Nat, Fail(n, status)
  PROVE  Carries
<1> DEFINE r == [inv[n] EXCEPT !.bad = inv[n].bad + 1, !.ver = 0, !.left = 0]
<1>1. Fine(inv[n], suspended) /\ inv[n] \in Record
  BY DEF Good, Fine
<1>2. inv[n].bad + 1 \in Nat
  BY <1>1 DEF Record
<1>3. /\ r \in Record /\ r.fn = inv[n].fn /\ r.pin = inv[n].pin /\ r.form = inv[n].form
  BY <1>1, <1>2, Failed
<1>4. Returned(n, r, status)
  BY DEF Fail, Return
<1> HIDE DEF r
<1>5. MayEnd(n, r, status)
  BY <1>1, <1>3, EndsFine DEF Fine, FitsItsPin
<1> QED
  BY <1>4, <1>5, Returns

LEMMA InvokeNextCarries ==
  ASSUME Good, NEW n \in Nodes, inv[n].fn = "call", ~inv[n].late, inv[n].st = "running",
         NEW left \in Int, InvokeNext(n, left)
  PROVE  Carries
<1> DEFINE job == Job("sandbox", 0, Form[1])
           r   == [inv[n] EXCEPT !.phase = "run", !.ver = 0, !.left = left - 1]
<1>1. Fine(inv[n], suspended) /\ inv[n] \in Record
  BY DEF Good, Fine
<1>2. left - 1 \in Int /\ 0 \in 0..MaxVersion
  BY CatalogAssumption
<1>3. /\ r \in Record /\ r.fn = inv[n].fn /\ r.pin = inv[n].pin /\ r.form = inv[n].form
      /\ r.phase = "run" /\ r.st = inv[n].st /\ r.late = inv[n].late /\ r.status = inv[n].status
  BY <1>1, <1>2 DEF Record, Phases
<1>4. MayBecome(n, r)
  BY <1>1, <1>3 DEF MayBecome, Fine, FitsItsPin, ShowsForms, StaysOut
<1>5. Fine(job, suspended) /\ Unborn(job)
  BY FirstForm, Asking DEF Work
<1> HIDE DEF job
<1>6. Len(<<job>>) = 1 /\ \A i \in 1..1 : <<job>>[i] = job
  OBVIOUS
<1>7. Spawn(n, r, <<job>>)
  BY <1>6 DEF InvokeNext, NextSandboxes, Sandbox, job
<1> HIDE DEF r
<1> QED
  BY <1>4, <1>5, <1>6, <1>7, Spawns

LEMMA GateCarries ==
  ASSUME Good, NEW n \in Nodes, Gate(n)
  PROVE  Carries
<1>1. /\ Fine(inv[n], suspended) /\ inv[n].fn = "call"
      /\ inv[n].st = "running" /\ inv[n].phase = "gate"
  BY DEF Good, Gate, At
<1>2. ~inv[n].late
  BY <1>1, NotLate
<1>3. CASE Fail(n, 403)
  BY <1>1, <1>2, <1>3, FailCarries
<1>4. CASE Fail(n, 400)
  BY <1>1, <1>2, <1>4, FailCarries
<1>5. CASE InvokeNext(n, Sandboxes)
  BY <1>1, <1>2, <1>5, WorkAssumption, InvokeNextCarries
<1> QED
  BY <1>3, <1>4, <1>5 DEF Gate

LEMMA RunFailsCarries ==
  ASSUME Good, NEW n \in Nodes, RunFails(n)
  PROVE  Carries
<1>1. inv[n].fn = "call" /\ inv[n].st = "running" /\ inv[n].phase = "run"
  BY DEF RunFails, At
<1>2. PICK status \in {422, 500, 502} : Fail(n, status)
  BY DEF RunFails
<1> QED
  BY <1>1, <1>2, NotLate, FailCarries

LEMMA RunGoesOnCarries ==
  ASSUME Good, NEW n \in Nodes, RunGoesOn(n)
  PROVE  Carries
<1>1. /\ Fine(inv[n], suspended) /\ inv[n].fn = "call"
      /\ inv[n].st = "running" /\ inv[n].phase = "run"
  BY DEF Good, RunGoesOn, At
<1>2. ~inv[n].late
  BY <1>1, NotLate
<1>3. CASE InvokeNext(n, inv[n].left)
  <2>1. inv[n].left \in Int
    BY <1>1 DEF Fine, Record
  <2> QED
    BY <1>1, <1>2, <1>3, <2>1, InvokeNextCarries
<1>4. CASE Return(n, [inv[n] EXCEPT !.ok = @ + 1], 200)
  <2> DEFINE r == [inv[n] EXCEPT !.ok = inv[n].ok + 1]
  <2>1. r \in Record /\ r.fn = inv[n].fn /\ r.pin = inv[n].pin /\ r.form = inv[n].form
    BY <1>1 DEF Fine, Record
  <2>2. Returned(n, r, 200)
    BY <1>4 DEF Return
  <2> HIDE DEF r
  <2>3. MayEnd(n, r, 200)
    BY <1>1, <1>2, <2>1, EndsFine DEF Fine, FitsItsPin
  <2> QED
    BY <2>2, <2>3, Returns
<1> QED
  BY <1>3, <1>4 DEF RunGoesOn

LEMMA DependencyRefusesCarries ==
  ASSUME Good, NEW n \in Nodes, DependencyRefuses(n)
  PROVE  Carries
<1>1. inv[n].fn = "call" /\ inv[n].st = "running" /\ inv[n].phase \in {"gate", "run"}
  BY DEF DependencyRefuses, At
<1>2. PICK status \in Refusals : Fail(n, status)
  BY DEF DependencyRefuses
<1> QED
  BY <1>1, <1>2, WorkAssumption, NotLate, FailCarries

(* The record with which the catch of handler() returns. *)
Caught(r, stored) == [r EXCEPT !.ok = r.ok + stored, !.bad = r.bad + 1, !.ver = 0, !.left = 0]

LEMMA CaughtIsRecord ==
  ASSUME NEW r \in Record, NEW stored \in {0, 1}
  PROVE  LET s == Caught(r, stored)
         IN  /\ s \in Record /\ s.fn = r.fn /\ s.pin = r.pin /\ s.form = r.form
             /\ s.tries = r.tries /\ s.ok = r.ok + stored /\ s.bad = r.bad + 1
<1> DEFINE t == [r EXCEPT !.ok = r.ok + stored]
<1>1. r.ok + stored \in Nat /\ r.bad + 1 \in Nat
  BY DEF Record
<1>2. /\ t \in Record /\ t.fn = r.fn /\ t.pin = r.pin /\ t.form = r.form
      /\ t.tries = r.tries /\ t.ok = r.ok + stored /\ t.bad = r.bad
  BY <1>1 DEF Record
<1> DEFINE s == [t EXCEPT !.bad = r.bad + 1, !.ver = 0, !.left = 0]
<1>3. s \in Record /\ s.fn = t.fn /\ s.pin = t.pin /\ s.form = t.form
  <2> HIDE DEF t
  <2> QED
    BY <1>1, <1>2, Failed
<1>4. s.tries = t.tries /\ s.ok = t.ok /\ s.bad = r.bad + 1
  <2> HIDE DEF t
  <2> QED
    BY <1>2 DEF Record
<1>5. Caught(r, stored) = s
  BY DEF Caught, Record
<1> HIDE DEF s, t
<1> QED
  BY <1>2, <1>3, <1>4, <1>5

(* A table throws while n has no group, or when its last has settled. *)
LEMMA WhatIsCaught ==
  ASSUME NEW n \in Nodes, TableThrows(n)
  PROVE  /\ inv[n].fn = "call" /\ inv[n].st = "running" /\ inv[n].phase \in {"resolve", "gate", "run"}
         /\ inv[n].phase = "run" => Settled(n)
         /\ \E stored \in {0, 1} : Returned(n, Caught(inv[n], stored), 500)
BY DEF TableThrows, Worked, At, Caught

LEMMA TableThrowsCarries ==
  ASSUME Good, NEW n \in Nodes, TableThrows(n)
  PROVE  Carries
<1>1. /\ Fine(inv[n], suspended) /\ inv[n] \in Record /\ ~inv[n].late
      /\ inv[n].fn = "call"
  BY WhatIsCaught, NotLate DEF Good, Fine
<1>2. PICK stored \in {0, 1} : Returned(n, Caught(inv[n], stored), 500)
  BY WhatIsCaught
<1> DEFINE r == Caught(inv[n], stored)
<1>3. r \in Record /\ r.fn = inv[n].fn /\ r.pin = inv[n].pin /\ r.form = inv[n].form
  BY <1>1, CaughtIsRecord
<1> HIDE DEF r
<1>4. MayEnd(n, r, 500)
  BY <1>1, <1>3, EndsFine DEF Fine, FitsItsPin
<1> QED
  BY <1>2, <1>4, Returns DEF r

LEMMA RunSandboxCarries ==
  ASSUME Good, NEW n \in Nodes, RunSandbox(n)
  PROVE  Carries
<1>1. inv[n] \in Record /\ inv[n].fn = "sandbox"
  BY DEF Good, Fine, RunSandbox, At
<1>2. PICK status \in {200, 422} : Returned(n, inv[n], status)
  BY DEF RunSandbox, Return
<1>3. MayEnd(n, inv[n], status)
  BY <1>1, EndsFine
<1> QED
  BY <1>2, <1>3, Returns

(* A group is waited for by whoever asked for it, and answer-fn may have   *)
(* begun suspended: it records nothing itself.                             *)
LEMMA AnswerReturns ==
  ASSUME Good, NEW n \in Nodes, inv[n].fn = "answer", NEW status \in Nat,
         Returned(n, inv[n], status)
  PROVE  Carries
<1>1. inv[n] \in Record
  BY DEF Good, Fine
<1>2. MayEnd(n, inv[n], status)
  BY <1>1, EndsFine
<1> QED
  BY <1>2, Returns

LEMMA AnswerGoesOn ==
  ASSUME Good, NEW n \in Nodes, inv[n].fn = "answer", inv[n].st = "running",
         NEW phase \in Phases, NEW jobs, Len(jobs) \in Nat,
         \A i \in 1..Len(jobs) : Fine(jobs[i], suspended) /\ Unborn(jobs[i]),
         Spawn(n, [inv[n] EXCEPT !.phase = phase], jobs)
  PROVE  Carries
<1> DEFINE r == [inv[n] EXCEPT !.phase = phase]
<1>1. Fine(inv[n], suspended)
  BY DEF Good
<1>2. /\ r \in Record /\ r.fn = inv[n].fn /\ r.st = inv[n].st /\ r.late = inv[n].late
      /\ r.ok = inv[n].ok /\ r.bad = inv[n].bad
  BY <1>1 DEF Fine, Record
<1> HIDE DEF r
<1>3. MayBecome(n, r)
  BY <1>1, <1>2 DEF MayBecome, Fine, FitsItsPin, ShowsForms, StaysOut
<1> QED
  BY <1>3, Spawns DEF r

LEMMA AnswerSearchesCarries ==
  ASSUME Good, NEW n \in Nodes, AnswerSearches(n)
  PROVE  Carries
<1> DEFINE job == Job("search", 0, Form[1])
<1>1. Fine(job, suspended) /\ Unborn(job)
  BY FirstForm, Asking DEF Work, Kinds
<1>2. /\ inv[n].fn = "answer" /\ inv[n].st = "running"
      /\ Spawn(n, [inv[n] EXCEPT !.phase = "search"], <<job>>)
  BY DEF AnswerSearches, At
<1> HIDE DEF job
<1> DEFINE jobs == <<job>>
<1>3. Len(jobs) \in Nat /\ \A i \in 1..Len(jobs) : jobs[i] = job
  OBVIOUS
<1> HIDE DEF jobs
<1>4. Spawn(n, [inv[n] EXCEPT !.phase = "search"], jobs)
  BY <1>2 DEF jobs
<1> QED
  BY <1>1, <1>2, <1>3, <1>4, AnswerGoesOn DEF Phases

LEMMA AnswerReachesCarries ==
  ASSUME Good, NEW n \in Nodes, AnswerReaches(n)
  PROVE  Carries
<1>1. inv[n].fn = "answer" /\ inv[n].st = "running"
  BY DEF AnswerReaches, At
<1>2. CASE Return(n, inv[n], 200)
  BY <1>1, <1>2, AnswerReturns DEF Return
<1>3. ASSUME NEW found \in Group(n), NEW uses \in 1..Uses,
             Spawn(n, [inv[n] EXCEPT !.phase = "calls"],
                   [i \in 1..uses |-> Job("call", 0, inv[found].form)])
      PROVE  Carries
  <2> DEFINE job  == Job("call", 0, inv[found].form)
             jobs == [i \in 1..uses |-> job]
  <2>1. inv[found].form \in Shown
    BY Kin DEF Good, Fine, Record
  <2>2. Fine(job, suspended) /\ Unborn(job)
    BY <2>1, FirstForm, Asking DEF Work, Kinds
  <2>3. Spawn(n, [inv[n] EXCEPT !.phase = "calls"], jobs)
    BY <1>3
  <2> HIDE DEF job
  <2>4. uses \in Nat
    BY WorkAssumption
  <2>5. Len(jobs) = uses /\ \A i \in 1..uses : jobs[i] = job
    BY <2>4
  <2> QED
    BY <1>1, <2>2, <2>3, <2>4, <2>5, AnswerGoesOn DEF Phases
<1> QED
  BY <1>2, <1>3 DEF AnswerReaches

LEMMA AnswerFailsCarries ==
  ASSUME Good, NEW n \in Nodes, AnswerFails(n)
  PROVE  Carries
<1>1. inv[n].fn = "answer"
  BY DEF AnswerFails, At
<1>2. PICK status \in {403, 500} : Returned(n, inv[n], status)
  BY DEF AnswerFails, Return
<1> QED
  BY <1>1, <1>2, AnswerReturns

LEMMA AnswerEndsCarries ==
  ASSUME Good, NEW n \in Nodes, AnswerEnds(n)
  PROVE  Carries
<1>1. inv[n].fn = "answer"
  BY DEF AnswerEnds, At
<1>2. PICK status \in {200, 500} : Returned(n, inv[n], status)
  BY DEF AnswerEnds, Return
<1> QED
  BY <1>1, <1>2, AnswerReturns

(* A reply of the endpoint. *)
LEMMA ReplyCarries ==
  ASSUME Good, NEW n \in Nodes, Len(n) = 1, ReplyList(n[1]) \/ ReplyError(n[1])
  PROVE  Carries
<1>1. n \in Seq(Nat)
  BY Kin DEF Good
<1>2. n[1] \in Nat /\ n = <<n[1]>>
  BY <1>1
<1>3. PICK answer \in {"list", "error"} : Answered(n[1], answer)
  BY DEF ReplyList, ReplyError
<1> QED
  BY <1>2, <1>3, AnsweredCarries

LEMMA StepCarries ==
  ASSUME Good, NEW n \in Nodes, newest \in Versions, suspended \in BOOLEAN, Step(n)
  PROVE  Carries
<1>1. CASE Len(n) = 1 /\ (ReplyList(n[1]) \/ ReplyError(n[1]))
  BY <1>1, ReplyCarries
<1>2. CASE Begin(n)
  BY <1>2, BeginCarries
<1>3. CASE Wait(n)
  BY <1>3, WaitCarries
<1>4. CASE Verify(n, IF inv[n].fn = "search" THEN "rank" ELSE "resolve")
  BY <1>4, VerifyCarries
<1>5. CASE Rank(n)
  BY <1>5, RankCarries
<1>6. CASE Resolve(n)
  BY <1>6, ResolveCarries
<1>7. CASE Gate(n)
  BY <1>7, GateCarries
<1>8. CASE RunGoesOn(n)
  BY <1>8, RunGoesOnCarries
<1>9. CASE RunFails(n)
  BY <1>9, RunFailsCarries
<1>10. CASE RunSandbox(n)
  BY <1>10, RunSandboxCarries
<1>11. CASE AnswerSearches(n)
  BY <1>11, AnswerSearchesCarries
<1>12. CASE AnswerReaches(n)
  BY <1>12, AnswerReachesCarries
<1>13. CASE AnswerFails(n)
  BY <1>13, AnswerFailsCarries
<1>14. CASE AnswerEnds(n)
  BY <1>14, AnswerEndsCarries
<1>15. CASE DependencyRefuses(n)
  BY <1>15, DependencyRefusesCarries
<1>16. CASE TableThrows(n)
  BY <1>16, TableThrowsCarries
<1> QED
  BY <1>1, <1>2, <1>3, <1>4, <1>5, <1>6, <1>7, <1>8, <1>9, <1>10, <1>11, <1>12, <1>13, <1>14,
     <1>15, <1>16
  DEF Step

(* What a search found is known with its form. *)
LEMMA ReplyTeaches ==
  ASSUME Good, NEW p \in Nat, <<p>> \in Nodes, ReplyList(p),
         \A shown \in known : shown.ver \in Versions /\ shown.form = Form[shown.ver]
  PROVE  \A shown \in known' : shown.ver \in Versions /\ shown.form = Form[shown.ver]
<1>1. known' = known \cup {[ver |-> inv[m].ver, form |-> inv[m].form] : m \in Results(p)}
  BY DEF ReplyList
<1>2. \A m \in Results(p) : inv[m].ver \in Versions /\ inv[m].form = Form[inv[m].ver]
  BY Kin DEF Good, Fine, ShowsForms, Results
<1> QED
  BY <1>1, <1>2

-----------------------------------------------------------------------------
(* What a POST starts. *)

LEMMA PairOf ==
  ASSUME NEW p \in Nat, NEW i \in Nat
  PROVE  /\ <<p, i>> \in Seq(Nat) /\ Len(<<p, i>>) = 2 /\ <<p, i>>[1] = p /\ <<p, i>>[2] = i
         /\ <<p, i>> = Append(<<p>>, i)
<1>1. <<p, i>> \in Seq(Nat) /\ Len(<<p, i>>) = 2 /\ <<p, i>>[1] = p /\ <<p, i>>[2] = i
  OBVIOUS
<1>2. <<p>> \in Seq(Nat) /\ Len(<<p>>) = 1 /\ <<p>>[1] = p
  OBVIOUS
<1> DEFINE root == <<p>>
<1> HIDE DEF root
<1>3. /\ Append(root, i) \in Seq(Nat) /\ Len(Append(root, i)) = 2
      /\ Append(root, i)[1] = p /\ Append(root, i)[2] = i
  BY <1>2, AppendProperties DEF root
<1> DEFINE pair == <<p, i>>
<1> HIDE DEF pair
<1>4. pair = Append(root, i)
  <2>1. pair \in Seq(Nat) /\ Len(pair) = 2 /\ pair[1] = p /\ pair[2] = i
    BY <1>1 DEF pair
  <2> QED
    BY <1>3, <2>1, SeqEqual
<1> QED
  BY <1>1, <1>4 DEF pair, root

Messages(root, jobs) == {<<root, i>> : i \in 1..Len(jobs)}
Kept == {n \in Nodes : ~Over(n[1])}

LEMMA Started ==
  ASSUME Good, NEW p \in Nat, <<p>> \notin Nodes,
         NEW r, NEW jobs, Len(jobs) \in Nat, Start(p, r, jobs)
  PROVE  /\ Nodes' = {<<p>>} \cup Messages(p, jobs) \cup Kept
         /\ inv'[<<p>>] = [r EXCEPT !.born = Len(jobs)]
         /\ \A m \in Messages(p, jobs) :
              /\ m \in Seq(Nat) /\ m # <<>> /\ m # <<p>> /\ m[1] = p /\ Len(m) = 2
              /\ m[2] \in 1..Len(jobs) /\ m = Append(<<p>>, m[2])
              /\ inv'[m] = jobs[m[2]]
         /\ \A m \in Kept : inv'[m] = inv[m]
<1> DEFINE root == <<p>>
           kids == Messages(p, jobs)
           next == [r EXCEPT !.born = Len(jobs)]
<1> HIDE DEF next
<1>1. inv' = [m \in {root} \cup kids \cup Kept |->
                CASE m = root  -> next
                  [] m \in kids -> jobs[m[2]]
                  [] OTHER     -> inv[m]]
  BY DEF Start, Messages, Kept, next
<1>2. \A m \in Nodes : m \in Seq(Nat) /\ m # <<>> /\ m[1] # p
  BY Kin DEF Good
<1>3. root \in Seq(Nat) /\ root # <<>> /\ root[1] = p /\ Len(root) = 1
  OBVIOUS
<1>4. \A m \in kids : /\ m \in Seq(Nat) /\ m # <<>> /\ m # root /\ m[1] = p /\ Len(m) = 2
                      /\ m[2] \in 1..Len(jobs) /\ m = Append(root, m[2])
  <2> TAKE m \in kids
  <2>1. PICK i \in 1..Len(jobs) : m = <<p, i>> /\ i \in Nat
    BY DEF Messages
  <2>2. m \in Seq(Nat) /\ Len(m) = 2 /\ m[1] = p /\ m[2] = i /\ m = Append(root, i)
    BY <2>1, PairOf
  <2> QED
    BY <1>3, <2>2
<1>5. Nodes' = {root} \cup kids \cup Kept
  BY <1>1 DEF Nodes
<1>6. inv'[root] = next
  <2>1. \A m \in {root} \cup kids \cup Kept : m = root => inv'[m] = next
    BY <1>1, <1>4
  <2> QED
    BY <2>1
<1>7. \A m \in kids : inv'[m] = jobs[m[2]]
  BY <1>1, <1>4
<1>8. \A m \in Kept : m # root /\ m \notin kids
  BY <1>2, <1>3, <1>4 DEF Kept
<1>9. \A m \in Kept : inv'[m] = inv[m]
  BY <1>1, <1>8
<1> QED
  BY <1>4, <1>5, <1>6, <1>7, <1>9 DEF next

LEMMA Starts ==
  ASSUME Good, NEW p \in Nat, <<p>> \notin Nodes,
         NEW r, Fine(r, suspended), r.fn = "mcp", r.first = 1,
         NEW jobs, Len(jobs) \in Nat,
         \A i \in 1..Len(jobs) : Fine(jobs[i], suspended) /\ Unborn(jobs[i]),
         Start(p, r, jobs)
  PROVE  Carries
<1> DEFINE root == <<p>>
           kids == Messages(p, jobs)
           next == [r EXCEPT !.born = Len(jobs)]
<1>1. /\ Fine(next, suspended) /\ next.fn = "mcp" /\ next.first = 1 /\ next.born = Len(jobs)
  <2>1. /\ next \in Record /\ next.first = 1 /\ next.born = Len(jobs) /\ Same(next, r)
    BY DEF Fine, Record, Same
  <2> HIDE DEF next
  <2> QED
    BY <2>1 DEF Fine, FitsItsPin, ShowsForms, StaysOut, Same
<1>2. /\ Nodes' = {root} \cup kids \cup Kept
      /\ inv'[root] = next
      /\ \A m \in kids : /\ m \in Seq(Nat) /\ m # <<>> /\ m # root /\ m[1] = p /\ Len(m) = 2
                         /\ m[2] \in 1..Len(jobs) /\ m = Append(root, m[2])
                         /\ inv'[m] = jobs[m[2]]
      /\ \A m \in Kept : inv'[m] = inv[m]
  BY Started
<1> HIDE DEF next
<1>3. \A m \in Nodes : m \in Seq(Nat) /\ m # <<>> /\ m[1] # p
  BY Kin DEF Good
<1>4. root \in Seq(Nat) /\ root # <<>> /\ root[1] = p /\ Len(root) = 1
  OBVIOUS
<1>5. \A m \in kids : /\ m \in Seq(Nat) /\ m # <<>> /\ m # root /\ m[1] = p /\ Len(m) = 2
                      /\ m[2] \in 1..Len(jobs) /\ m = Append(root, m[2])
  BY <1>2
<1>6. Nodes' = {root} \cup kids \cup Kept
  BY <1>2
<1>7. /\ inv'[root] = next
      /\ \A m \in kids : inv'[m] = jobs[m[2]]
      /\ \A m \in Kept : inv'[m] = inv[m]
  BY <1>2
<1>8. \A m \in Nodes' : Fine(inv'[m], suspended) /\ AtTheEndpoint(m, inv'[m])
  <2> TAKE m \in Nodes'
  <2>1. CASE m = root
    BY <1>1, <1>7, <2>1 DEF AtTheEndpoint
  <2>2. CASE m \in kids
    BY <1>5, <1>7, <2>2 DEF AtTheEndpoint
  <2>3. CASE m \in Kept
    BY <1>7, <2>3 DEF Good, Kept
  <2> QED
    BY <1>6, <2>1, <2>2, <2>3
<1>9. \A m \in Running : m \in Kept
  BY DEF Running, Kept, Over
<1>10. \A m \in Running : inv[m].late =>
         m \in Nodes' /\ inv'[m].ok = inv[m].ok /\ inv'[m].bad = inv[m].bad
  BY <1>6, <1>7, <1>9
<1>11. \A m \in Seq(Nat), i \in Nat :
         m # <<>> => /\ Append(m, i)[1] = m[1] /\ Append(m, i) # root
                     /\ Append(m, i) \in kids => m = root /\ i \in 1..Len(jobs)
  <2> TAKE m \in Seq(Nat), i \in Nat
  <2> HAVE m # <<>>
  <2>1. Append(m, i)[1] = m[1] /\ Append(m, i) # << Append(m, i)[1] >>
    BY ChildOf
  <2>2. Append(m, i) # root
    BY <1>4, <2>1
  <2>3. ASSUME Append(m, i) \in kids PROVE m = root /\ i \in 1..Len(jobs)
    <3>1. PICK j \in 1..Len(jobs) : Append(m, i) = Append(root, j)
      BY <1>5, <2>3
    <3>2. j \in Nat
      OBVIOUS
    <3> QED
      BY <1>4, <3>1, <3>2, OneParent
  <2> QED
    BY <2>1, <2>2, <2>3
<1>12. \A m \in Kept : <<m[1]>> \in Kept /\ Group(m) \subseteq Kept /\ Group(m)' = Group(m)
  <2> TAKE m \in Kept
  <2>1. m \in Nodes /\ ~Over(m[1]) /\ m \in Seq(Nat) /\ m # <<>>
    BY <1>3 DEF Kept
  <2>2. <<m[1]>> \in Nodes /\ <<m[1]>>[1] = m[1]
    BY <2>1, Kin DEF Good
  <2>3. \A g \in Group(m) : g \in Nodes /\ g[1] = m[1]
    <3> TAKE g \in Group(m)
    <3>1. PICK i \in inv[m].first..inv[m].born : g = Append(m, i)
      BY DEF Group
    <3>2. i \in Nat
      BY <2>1, Typed
    <3> QED
      BY <2>1, <3>1, <3>2, <1>11, Kin DEF Good
  <2>4. Group(m)' = Group(m)
    BY <1>7 DEF Group
  <2> QED
    BY <2>1, <2>2, <2>3, <2>4 DEF Kept
<1>13. \A m \in Seq(Nat), i \in Nat : m # <<>> /\ Append(m, i) \in Kept => m \in Kept
  BY <1>11 DEF Kept, Good, Forest, Upward
<1>14. Paths' /\ Rooted'
  <2>1. Paths'
    BY <1>3, <1>4, <1>5, <1>6 DEF Paths, Kept
  <2>2. Rooted'
    BY <1>4, <1>5, <1>6, <1>12 DEF Rooted
  <2> QED
    BY <2>1, <2>2
<1>15. Linked'
  <2> SUFFICES ASSUME NEW m \in Nodes', NEW i \in Nat, Append(m, i) \in Nodes'
               PROVE  i =< inv'[m].born
    BY DEF Linked
  <2>1. m \in Seq(Nat) /\ m # <<>>
    BY <1>14 DEF Paths
  <2>2. CASE Append(m, i) \in kids
    BY <1>1, <1>7, <1>11, <2>1, <2>2
  <2>3. CASE Append(m, i) \in Kept
    <3>1. m \in Kept /\ Append(m, i) \in Nodes
      BY <1>13, <2>1, <2>3 DEF Kept
    <3> QED
      BY <1>7, <3>1 DEF Kept, Good, Forest, Linked
  <2> QED
    BY <1>6, <1>11, <2>1, <2>2, <2>3
<1>16. Asks'
  <2> SUFFICES ASSUME NEW m \in Nodes' PROVE Group(m)' \subseteq Nodes'
    BY DEF Asks
  <2>1. CASE m = root
    <3> SUFFICES ASSUME NEW i \in 1..Len(jobs) PROVE Append(root, i) \in kids
      BY <1>1, <1>6, <1>7, <2>1 DEF Group
    <3>1. i \in Nat
      OBVIOUS
    <3>2. Append(root, i) = <<p, i>>
      BY <3>1, PairOf
    <3> QED
      BY <3>2 DEF Messages
  <2>2. CASE m \in kids
    <3>1. inv'[m].first = 1 /\ inv'[m].born = 0
      BY <1>5, <1>7, <2>2 DEF Unborn
    <3> QED
      BY <3>1 DEF Group
  <2>3. CASE m \in Kept
    BY <1>6, <1>12, <2>3
  <2> QED
    BY <1>6, <2>1, <2>2, <2>3
<1>17. Upward'
  <2> SUFFICES ASSUME NEW m \in Seq(Nat), NEW i \in Nat, m # <<>>, Append(m, i) \in Nodes'
               PROVE  m \in Nodes'
    BY DEF Upward
  <2> QED
    BY <1>6, <1>11, <1>13
<1> QED
  BY <1>8, <1>10, <1>14, <1>15, <1>16, <1>17 DEF Carries, Forest

Right == \A shown \in known : shown.ver \in Versions /\ shown.form = Form[shown.ver]

LEMMA AskedIsFine ==
  ASSUME Right, NEW kind \in Kinds, NEW job \in Asked(kind)
  PROVE  Fine(job, suspended) /\ Unborn(job)
<1>1. CASE kind = "call"
  <2>1. Asked(kind) = UNION {{Job("call", pin, shown.form) : pin \in {0, shown.ver}} :
                               shown \in known}
    BY <1>1 DEF Asked
  <2>2. PICK shown \in known : job \in {Job("call", pin, shown.form) : pin \in {0, shown.ver}}
    BY <2>1
  <2>3. PICK pin \in {0, shown.ver} : job = Job("call", pin, shown.form)
    BY <2>2
  <2>4. shown.ver \in Versions /\ shown.form = Form[shown.ver]
    BY DEF Right
  <2>5. pin \in 0..MaxVersion /\ shown.form \in Shown /\ (pin # 0 => shown.form = Form[pin])
    BY <2>3, <2>4, CatalogAssumption DEF Versions, Shown
  <2> QED
    BY <2>3, <2>5, Asking DEF Work, Kinds
<1>2. CASE kind = "local"
  <2> DEFINE plain == Job("local", 0, Form[1])
  <2>1. Fine(plain, suspended) /\ Unborn(plain) /\ plain.fn = "local" /\ plain.st = "asked"
        /\ plain.late = FALSE
    <3>1. Fine(plain, suspended) /\ Unborn(plain)
      BY FirstForm, Asking DEF Work, Kinds
    <3> QED
      BY <3>1 DEF Job
  <2>2. job = [plain EXCEPT !.st = "ended", !.status = 200]
    BY <1>2 DEF Asked
  <2> HIDE DEF plain
  <2>3. /\ job \in Record /\ job.fn = "local" /\ job.st = "ended" /\ job.late = FALSE
        /\ job.first = plain.first /\ job.born = plain.born
    BY <2>1, <2>2 DEF Fine, Record, States
  <2> QED
    BY <2>1, <2>3 DEF Fine, FitsItsPin, ShowsForms, StaysOut, Unborn
<1>3. CASE kind \in {"search", "answer"}
  <2>1. job = Job(kind, 0, Form[1])
    BY <1>3 DEF Asked
  <2> QED
    BY <1>3, <2>1, FirstForm, Asking DEF Work, Kinds
<1> QED
  BY <1>1, <1>2, <1>3 DEF Kinds

LEMMA EndpointIsFine ==
  LET r == [Job("mcp", 0, Form[1]) EXCEPT !.st = "running"]
  IN  Fine(r, suspended) /\ r.fn = "mcp" /\ r.first = 1
<1> DEFINE plain == Job("mcp", 0, Form[1])
           r     == [plain EXCEPT !.st = "running"]
<1>1. Fine(plain, suspended) /\ Unborn(plain)
  BY FirstForm, Asking DEF Work
<1>2. plain.fn = "mcp" /\ plain.late = FALSE /\ plain.first = 1
  BY DEF Job
<1> HIDE DEF plain
<1>3. r \in Record /\ r.fn = "mcp" /\ r.first = 1 /\ r.late = FALSE /\ r.st = "running"
  BY <1>1, <1>2 DEF Fine, Record, States
<1> HIDE DEF r
<1>4. Fine(r, suspended)
  BY <1>3 DEF Fine, FitsItsPin, ShowsForms, StaysOut
<1> QED
  BY <1>3, <1>4 DEF r, plain

LEMMA PostCarries ==
  ASSUME Good, Right, script \in Scripts, NEW p, Post(p)
  PROVE  Carries
<1>1. script \in Seq(Seq(Kinds)) /\ p \in DOMAIN script /\ <<p>> \notin Nodes
  BY ScriptAssumption DEF Post, Turn
<1>2. p \in Nat /\ script[p] \in Seq(Kinds)
  BY <1>1
<1> DEFINE post == script[p]
           r    == [Job("mcp", 0, Form[1]) EXCEPT !.st = "running"]
<1>3. PICK jobs \in [DOMAIN post -> UNION {Asked(kind) : kind \in Range(post)}] :
        /\ \A i \in DOMAIN jobs : jobs[i] \in Asked(post[i])
        /\ Start(p, r, jobs)
  BY DEF Post
<1>4. Fine(r, suspended) /\ r.fn = "mcp" /\ r.first = 1
  BY EndpointIsFine
<1> HIDE DEF post, r
<1>5. DOMAIN post = 1..Len(post) /\ Len(post) \in Nat /\ \A i \in 1..Len(post) : post[i] \in Kinds
  BY <1>2, ElementOfSeq, LenProperties DEF post
<1>6. DOMAIN jobs = 1..Len(post)
  BY <1>3, <1>5
<1>7. Len(jobs) = Len(post)
  BY <1>5, <1>6
<1>8. \A i \in 1..Len(jobs) : Fine(jobs[i], suspended) /\ Unborn(jobs[i])
  BY <1>3, <1>5, <1>6, <1>7, AskedIsFine
<1> QED
  BY <1>1, <1>2, <1>3, <1>4, <1>5, <1>7, <1>8, Starts

-----------------------------------------------------------------------------
(* The invariant. *)

LEMMA IInvParts ==
  IInv <=> /\ Good /\ Right
           /\ newest \in Versions /\ suspended \in BOOLEAN /\ script \in Scripts
BY DEF IInv, Good, Right

LEMMA InitIInv ==
  ASSUME Init
  PROVE  IInv
<1>1. Nodes = {}
  BY DEF Init, Nodes
<1>2. Good
  <2>1. Paths /\ Rooted /\ Asks
    BY <1>1 DEF Paths, Rooted, Asks
  <2>2. Linked /\ Upward
    BY <1>1 DEF Linked, Upward
  <2> QED
    BY <1>1, <2>1, <2>2 DEF Good, Forest
<1>3. newest \in Versions /\ suspended \in BOOLEAN /\ script \in Scripts
  <2>1. newest = 1 /\ suspended = FALSE /\ script \in Scripts
    BY Zenon DEF Init
  <2>2. newest \in Versions
    BY <2>1, CatalogAssumption DEF Versions
  <2>3. suspended \in BOOLEAN
    BY <2>1, Zenon
  <2> QED
    BY <2>1, <2>2, <2>3, Zenon
<1>4. Right
  BY CatalogAssumption DEF Init, Right, Versions
<1> QED
  BY <1>2, <1>3, <1>4, IInvParts

(* Nobody takes a step. *)
LEMMA Unmoved ==
  ASSUME Good, UNCHANGED inv, suspended \in BOOLEAN, suspended' \in {suspended, TRUE}
  PROVE  Good'
<1>1. Nodes' = Nodes
  BY DEF Nodes
<1>2. Forest'
  BY <1>1 DEF Good, Forest, Paths, Rooted, Linked, Asks, Upward, Group
<1>3. \A m \in Nodes : Fine(inv[m], suspended')
  BY DEF Good, Fine, StaysOut
<1> QED
  BY <1>1, <1>2, <1>3 DEF Good, AtTheEndpoint

LEMMA CarriesGood ==
  ASSUME Carries, UNCHANGED suspended
  PROVE  Good'
BY DEF Carries, Good

(* What a step of n leaves alone. *)
LEMMA StepFrame ==
  ASSUME NEW n, Step(n)
  PROVE  /\ UNCHANGED <<newest, suspended, script>>
         /\ UNCHANGED known \/ (Len(n) = 1 /\ ReplyList(n[1]))
BY DEF Step, ReplyList, ReplyError, Begin, Wait, Verify, Rank, Resolve, Gate, RunGoesOn,
       DependencyRefuses, RunFails, TableThrows, RunSandbox, AnswerSearches, AnswerReaches, AnswerFails, AnswerEnds,
       Inside, platform, client

(* Whoever begins suspended records nothing. *)
Silent == \A m \in Running : inv[m].late =>
            m \in Nodes' /\ inv'[m].ok = inv[m].ok /\ inv'[m].bad = inv[m].bad

LEMMA NextIInv ==
  ASSUME IInv, Next
  PROVE  IInv' /\ Silent
<1>1. /\ Good /\ Right
      /\ newest \in Versions /\ suspended \in BOOLEAN /\ script \in Scripts
  BY IInvParts
<1>2. UNCHANGED inv => Silent
  BY DEF Silent, Running, Nodes
<1>3. UNCHANGED known => Right'
  BY <1>1 DEF Right
<1>4. ASSUME Good', Right', newest' \in Versions, suspended' \in BOOLEAN, script' \in Scripts
      PROVE  IInv'
  BY <1>4 DEF IInv, Good, Right
<1>5. CASE PublishVersion
  <2>1. UNCHANGED <<inv, suspended, script, known>> /\ newest' \in Versions
    BY <1>1, <1>5, CatalogAssumption DEF PublishVersion, pool, client, Versions
  <2> QED
    BY <1>1, <1>2, <1>3, <1>4, <2>1, Unmoved
<1>6. ASSUME NEW v \in Versions, Approve(v)
      PROVE  IInv' /\ Silent
  <2>1. UNCHANGED <<inv, newest, suspended, script, known>>
    BY <1>6 DEF Approve, pool, client
  <2> QED
    BY <1>1, <1>2, <1>3, <1>4, <2>1, Unmoved
<1>7. CASE Suspend
  <2>1. UNCHANGED <<inv, newest, script, known>> /\ suspended' = TRUE
    BY <1>7 DEF Suspend, pool, client
  <2> QED
    BY <1>1, <1>2, <1>3, <1>4, <2>1, Unmoved
<1>8. ASSUME NEW p \in Posts, TurnAway(p)
      PROVE  IInv' /\ Silent
  <2>1. UNCHANGED <<inv, newest, suspended, script, known>>
    BY <1>8 DEF TurnAway, pool, platform
  <2> QED
    BY <1>1, <1>2, <1>3, <1>4, <2>1, Unmoved
<1>9. ASSUME NEW p \in Posts, Post(p)
      PROVE  IInv' /\ Silent
  <2>1. UNCHANGED <<newest, suspended, script, known>>
    BY <1>9 DEF Post, platform, client
  <2>2. Carries
    BY <1>1, <1>9, PostCarries
  <2> QED
    BY <1>1, <1>3, <1>4, <2>1, <2>2, CarriesGood DEF Carries, Silent
<1>10. ASSUME NEW n \in Nodes, Step(n)
       PROVE  IInv' /\ Silent
  <2>1. UNCHANGED <<newest, suspended, script>>
    BY <1>10, StepFrame
  <2>2. Carries
    BY <1>1, <1>10, StepCarries
  <2>3. Right'
    <3>1. CASE Len(n) = 1 /\ ReplyList(n[1])
      <4>1. n \in Seq(Nat)
        BY <1>1, Kin DEF Good
      <4>2. n[1] \in Nat /\ <<n[1]>> \in Nodes
        BY <3>1, <4>1
      <4> QED
        BY <1>1, <3>1, <4>2, ReplyTeaches DEF Right
    <3> QED
      BY <1>3, <1>10, <3>1, StepFrame
  <2> QED
    BY <1>1, <1>4, <2>1, <2>2, <2>3, CarriesGood DEF Carries, Silent
<1>11. ASSUME NEW n \in Nodes, LoseReply(n) \/ Die(n)
       PROVE  IInv' /\ Silent
  <2>1. UNCHANGED <<newest, suspended, script, known>>
    BY <1>11 DEF LoseReply, Die, Inside, platform, client
  <2>2. Carries
    BY <1>1, <1>11, LoseReplyCarries, DieCarries
  <2> QED
    BY <1>1, <1>3, <1>4, <2>1, <2>2, CarriesGood DEF Carries, Silent
<1> QED
  BY <1>5, <1>6, <1>7, <1>8, <1>9, <1>10, <1>11 DEF Next

LEMMA IInvInvariant == Spec => []IInv
<1>1. IInv /\ UNCHANGED vars => IInv'
  <2> SUFFICES ASSUME IInv, UNCHANGED vars PROVE IInv'
    OBVIOUS
  <2>1. /\ Good /\ Right
        /\ newest \in Versions /\ suspended \in BOOLEAN /\ script \in Scripts
    BY IInvParts
  <2>2. UNCHANGED <<inv, newest, suspended, script, known>>
    BY DEF vars
  <2> QED
    BY <2>1, <2>2, Unmoved DEF IInv, Good, Right
<1>2. IInv /\ [Next]_vars => IInv'
  BY <1>1, NextIInv
<1> QED
  BY <1>2, InitIInv, PTL DEF Spec

(* A call that is pinned to a version the client was shown, with the form  *)
(* it was shown, comes to validateInput() with an input that fits: what    *)
(* exec-fn resolves is the pinned version, whatever was published since.   *)
THEOREM PinnedCallFitsHolds == Spec => []PinnedCallFits
<1>1. IInv => PinnedCallFits
  BY DEF IInv, Fine, FitsItsPin, PinnedCallFits, Fits, At
<1> QED
  BY <1>1, IInvInvariant, PTL

(* An invocation that begins with the caller suspended records nothing,    *)
(* for any number of clients' messages, tools and faults: authenticate()   *)
(* stands before everything that search-fn and exec-fn record.             *)
THEOREM SuspendedStopsHolds == Spec => SuspendedStops
<1> DEFINE S == \A n \in Running : inv[n].late =>
                  n \in DOMAIN inv' /\ inv'[n].ok = inv[n].ok /\ inv'[n].bad = inv[n].bad
<1>1. IInv /\ [Next]_vars => [S]_vars
  BY NextIInv DEF Silent, Nodes
<1> QED
  BY <1>1, IInvInvariant, PTL DEF Spec, SuspendedStops

-----------------------------------------------------------------------------
(* What a POST is told, and who is throttled: who asks for whom, how often *)
(* it records, and when something may still be under way below it.         *)

(* What a call has recorded when it returns this status. *)
Told(r, status) ==
  CASE status = 200 -> r.ok > 0
    [] status = 500 -> r.bad > 0
    [] OTHER        -> r.ok =< r.tries

(* Where the place of the group is, and what a call has recorded.          *)
Plain(r) ==
  /\ r.st \in {"asked", "ended", "refused"} => r.phase = "begin"
  /\ r.fn = "mcp" => r.first = 1 /\ r.phase = "begin"
  /\ r.fn # "mcp" /\ r.phase = "begin" => r.first = r.born + 1
  /\ r.fn = "call" => r.first = IF r.phase = "run" THEN r.born ELSE r.born + 1
  /\ r.fn # "mcp" /\ r.st \in {"asked", "running"} /\ r.phase = "begin" /\ r.tries = 0 =>
       r.born = 0
  /\ r.fn = "call" =>
       /\ r.ok =< r.tries + 1
       /\ r.st \in {"asked", "running"} => r.ok =< r.tries
       /\ r.st = "ended" => Told(r, r.status)

Invoked(fn) ==
  CASE fn = "mcp"    -> Kinds
    [] fn = "answer" -> {"search", "call"}
    [] fn = "call"   -> {"sandbox"}
    [] OTHER         -> {}

(* Nothing outside of the group is under way: of a call always, of an      *)
(* answer until one of its tools throws or it is invoked again.            *)
Minded(r) ==
  \/ r.fn = "call"
  \/ /\ r.fn = "answer" /\ r.tries = 0
     /\ r.st = "running" \/ (r.st = "ended" /\ r.status = 200)

Minds(n, r) ==
  Minded(r) => \A i \in Nat :
    Append(n, i) \in Nodes /\ Under(Append(n, i)) => i \in r.first..r.born

Kinship ==
  \A n \in Nodes, i \in Nat : Append(n, i) \in Nodes =>
    i # 0 /\ inv[Append(n, i)].fn \in Invoked(inv[n].fn)

Tidy ==
  /\ IsFiniteSet(Nodes)
  /\ \A n \in Nodes : n[1] \in Posts /\ Plain(inv[n]) /\ Minds(n, inv[n])
  /\ Kinship

(* Nothing of what the POST asked for is open. *)
Done(p) ==
  <<p>> \in Nodes =>
    /\ inv[<<p>>].st = "ended"
    /\ \A m \in Group(<<p>>) : inv[m].st = "ended"

Replies == {"nothing", "list", "error", "refusal", "gone"}

Telling == told \in [Posts -> Replies] /\ \A p \in Posts : told[p] = "list" => Done(p)

-----------------------------------------------------------------------------
(* A step of n, as the others see it. *)

(* m is a child that n has just asked for. *)
Fresh(n, m) ==
  \E i \in inv'[n].first..inv'[n].born :
    /\ i # 0 /\ m = Append(n, i)
    /\ inv'[m].fn \in Invoked(inv'[n].fn)
    /\ Plain(inv'[m]) /\ Unborn(inv'[m])

Deed(n) ==
  /\ n \in Nodes' /\ n[1] \in Posts /\ Plain(inv'[n]) /\ Minds(n, inv'[n])
  /\ IF n \in Nodes THEN inv'[n].fn = inv[n].fn /\ (Under(n) \/ Awaited(n)) ELSE Len(n) = 1
  /\ \A m \in Nodes : m # n /\ Under(m) => m \in Nodes' /\ inv'[m] = inv[m]
  /\ \A m \in Nodes' : m # n => (m \in Nodes /\ inv'[m] = inv[m]) \/ Fresh(n, m)

LEMMA FrontOf ==
  ASSUME NEW n \in Seq(Nat), NEW i \in Nat
  PROVE  Front(Append(n, i)) = n
<1> DEFINE c == Append(n, i)
<1>1. Len(n) \in Nat
  BY LenProperties
<1>2. c \in Seq(Nat) /\ Len(c) = Len(n) + 1 /\ \A k \in 1..Len(n) : c[k] = n[k]
  BY AppendProperties
<1>3. Front(c) = SubSeq(c, 1, Len(n))
  BY <1>1, <1>2 DEF Front
<1>4. \A k \in 1..Len(n) : c[k] \in Nat
  BY <1>1, <1>2, ElementOfSeq
<1> HIDE DEF c
<1>5. /\ SubSeq(c, 1, Len(n)) \in Seq(Nat)
      /\ Len(SubSeq(c, 1, Len(n))) = Len(n)
      /\ \A k \in 1..Len(n) : SubSeq(c, 1, Len(n))[k] = n[k]
  BY <1>1, <1>2, <1>4
<1> QED
  BY <1>3, <1>5, SeqEqual DEF c

(* Whoever is not the first of his tree was asked for. *)
LEMMA HasParent ==
  ASSUME NEW n \in Seq(Nat), Len(n) > 1
  PROVE  \E k \in Seq(Nat), i \in Nat : k # <<>> /\ n = Append(k, i)
<1> DEFINE k == SubSeq(n, 1, Len(n) - 1)
           i == n[Len(n)]
<1>1. Len(n) \in Nat /\ i \in Nat
  BY LenProperties, ElementOfSeq
<1>2. \A j \in 1..(Len(n) - 1) : n[j] \in Nat
  BY <1>1, ElementOfSeq
<1>3. /\ k \in Seq(Nat) /\ Len(k) = Len(n) - 1
      /\ \A j \in 1..(Len(n) - 1) : k[j] = n[j]
  BY <1>1, <1>2
<1> HIDE DEF k, i
<1>4. k # <<>>
  BY <1>1, <1>3
<1>5. /\ Append(k, i) \in Seq(Nat) /\ Len(Append(k, i)) = Len(n)
      /\ \A j \in 1..(Len(n) - 1) : Append(k, i)[j] = n[j]
      /\ Append(k, i)[Len(n)] = i
  BY <1>1, <1>3, AppendProperties
<1>6. \A j \in 1..Len(n) : Append(k, i)[j] = n[j]
  BY <1>1, <1>5 DEF i
<1>7. n = Append(k, i)
  BY <1>5, <1>6, SeqEqual
<1> QED
  BY <1>1, <1>3, <1>4, <1>7

LEMMA FiniteChildren ==
  ASSUME NEW n, NEW a \in Nat, NEW b \in Nat
  PROVE  IsFiniteSet({Append(n, i) : i \in a..b})
<1> DEFINE S == a..b
           T == {Append(n, i) : i \in S}
           f == [i \in S |-> Append(n, i)]
<1>1. IsFiniteSet(S)
  BY FS_Interval
<1>2. f \in Surjection(S, T)
  BY DEF Surjection
<1> QED
  BY <1>1, <1>2, FS_Surjection

LEMMA DeedKeepsTidy ==
  ASSUME Good, Tidy, Carries, NEW n, Deed(n)
  PROVE  Tidy'
<1>1. /\ n \in Nodes' /\ n[1] \in Posts /\ Plain(inv'[n]) /\ Minds(n, inv'[n])
      /\ n \in Nodes => inv'[n].fn = inv[n].fn /\ (Under(n) \/ Awaited(n))
      /\ n \notin Nodes => Len(n) = 1
      /\ \A m \in Nodes' : m # n => (m \in Nodes /\ inv'[m] = inv[m]) \/ Fresh(n, m)
  BY DEF Deed
<1>2. /\ Forest'
      /\ \A m \in Nodes' : inv'[m].first \in Nat \ {0} /\ inv'[m].born \in Nat
  BY DEF Carries, Fine, Record
<1>3. \A m \in Nodes' : m \in Seq(Nat) /\ m # <<>>
  BY <1>2 DEF Forest, Paths
<1>4. \A m : Fresh(n, m) => \E i \in Nat : /\ i # 0 /\ m = Append(n, i)
                                           /\ i \in inv'[n].first..inv'[n].born
                                           /\ inv'[m].fn \in Invoked(inv'[n].fn)
                                           /\ Plain(inv'[m]) /\ Unborn(inv'[m])
  BY <1>1, <1>2 DEF Fresh
<1>5. IsFiniteSet(Nodes')
  <2> DEFINE a == inv'[n].first
             b == inv'[n].born
             kids == {Append(n, i) : i \in a..b}
  <2>1. IsFiniteSet(kids)
    BY <1>1, <1>2, FiniteChildren
  <2>2. IsFiniteSet(Nodes \cup {n})
    BY FS_AddElement DEF Tidy
  <2>3. IsFiniteSet((Nodes \cup {n}) \cup kids)
    BY <2>1, <2>2, FS_Union
  <2>4. Nodes' \subseteq (Nodes \cup {n}) \cup kids
    BY <1>1 DEF Fresh
  <2> QED
    BY <2>3, <2>4, FS_Subset
(* Whoever a child belongs to: to n, or to one that stays as it was. *)
<1>6. \A k \in Nodes', i \in Nat :
        Append(k, i) \in Nodes' /\ k # n /\ Append(k, i) # n =>
          /\ k \in Nodes /\ inv'[k] = inv[k]
          /\ Append(k, i) \in Nodes /\ inv'[Append(k, i)] = inv[Append(k, i)]
  <2> TAKE k \in Nodes', i \in Nat
  <2> HAVE Append(k, i) \in Nodes' /\ k # n /\ Append(k, i) # n
  <2>1. ~Fresh(n, Append(k, i))
    <3> SUFFICES ASSUME Fresh(n, Append(k, i)) PROVE FALSE
      OBVIOUS
    <3>1. PICK j \in Nat : Append(k, i) = Append(n, j)
      BY <1>4
    <3> QED
      BY <1>1, <1>3, <3>1, OneParent
  <2>2. Append(k, i) \in Nodes /\ inv'[Append(k, i)] = inv[Append(k, i)]
    BY <1>1, <2>1
  <2>3. k \in Nodes
    BY <1>3, <2>2 DEF Good, Forest, Upward
  <2>4. ~Fresh(n, k)
    <3> SUFFICES ASSUME Fresh(n, k) PROVE FALSE
      OBVIOUS
    <3>1. inv'[k].born = 0
      BY <1>4 DEF Unborn
    <3>2. i =< 0
      BY <1>2, <3>1 DEF Forest, Linked
    <3> QED
      BY <2>2, <2>3, <3>2 DEF Tidy, Kinship
  <2> QED
    BY <1>1, <2>2, <2>3, <2>4
(* n itself may be a child, and whose it is stays as it was. *)
<1>7. \A k \in Nodes', i \in Nat :
        Append(k, i) = n => /\ n \in Nodes /\ k \in Nodes /\ inv'[k] = inv[k] /\ k # n
                            /\ inv'[n].fn = inv[n].fn
  <2> TAKE k \in Nodes', i \in Nat
  <2> HAVE Append(k, i) = n
  <2>1. k \in Seq(Nat) /\ k # <<>> /\ Len(k) \in Nat \ {0} /\ Len(n) = Len(k) + 1
    BY <1>3, ChildOf, EmptySeq
  <2>2. n \in Nodes /\ k # n
    BY <1>1, <2>1
  <2>3. k \in Nodes
    BY <2>1, <2>2 DEF Good, Forest, Upward
  <2>4. ~Fresh(n, k)
    <3> SUFFICES ASSUME Fresh(n, k) PROVE FALSE
      OBVIOUS
    <3>1. PICK j \in Nat : k = Append(n, j)
      BY <1>4
    <3>2. Len(k) = Len(n) + 1
      BY <1>1, <1>3, <3>1, ChildOf
    <3> QED
      BY <2>1, <3>2
  <2> QED
    BY <1>1, <2>2, <2>3, <2>4
(* A child of n is new, or stays as it was. *)
<1>8. \A i \in Nat : Append(n, i) \in Nodes' =>
        \/ n \in Nodes /\ Append(n, i) \in Nodes /\ inv'[Append(n, i)] = inv[Append(n, i)]
        \/ /\ i # 0 /\ i \in inv'[n].first..inv'[n].born
           /\ inv'[Append(n, i)].fn \in Invoked(inv'[n].fn)
  <2> TAKE i \in Nat
  <2> HAVE Append(n, i) \in Nodes'
  <2>1. n \in Seq(Nat) /\ n # <<>> /\ Append(n, i) # n
    BY <1>1, <1>3, ChildOf
  <2>2. CASE Append(n, i) \in Nodes /\ inv'[Append(n, i)] = inv[Append(n, i)]
    BY <2>1, <2>2 DEF Good, Forest, Upward
  <2>3. CASE Fresh(n, Append(n, i))
    <3>1. PICK j \in Nat : /\ j # 0 /\ Append(n, i) = Append(n, j)
                           /\ j \in inv'[n].first..inv'[n].born
                           /\ inv'[Append(n, i)].fn \in Invoked(inv'[n].fn)
      BY <1>4, <2>3
    <3>2. i = j
      BY <2>1, <3>1, OneParent
    <3> QED
      BY <3>1, <3>2
  <2> QED
    BY <1>1, <2>1, <2>2, <2>3
<1>9. \A m \in Nodes' : m[1] \in Posts /\ Plain(inv'[m])
  <2> TAKE m \in Nodes'
  <2>1. CASE m = n
    BY <1>1, <2>1
  <2>2. CASE m \in Nodes /\ inv'[m] = inv[m]
    BY <2>2 DEF Tidy
  <2>3. CASE Fresh(n, m)
    <3>1. PICK i \in Nat : m = Append(n, i) /\ Plain(inv'[m])
      BY <1>4, <2>3
    <3>2. m[1] = n[1]
      BY <1>1, <1>3, <3>1, ChildOf
    <3> QED
      BY <1>1, <3>1, <3>2
  <2> QED
    BY <1>1, <2>1, <2>2, <2>3
<1>10. Kinship'
  <2> SUFFICES ASSUME NEW k \in Nodes', NEW i \in Nat, Append(k, i) \in Nodes'
               PROVE  i # 0 /\ inv'[Append(k, i)].fn \in Invoked(inv'[k].fn)
    BY DEF Kinship
  <2>1. CASE k = n
    BY <1>1, <1>8, <2>1 DEF Tidy, Kinship
  <2>2. CASE k # n /\ Append(k, i) = n
    BY <1>7, <2>2 DEF Tidy, Kinship
  <2>3. CASE k # n /\ Append(k, i) # n
    BY <1>6, <2>3 DEF Tidy, Kinship
  <2> QED
    BY <2>1, <2>2, <2>3
<1>11. ASSUME NEW k \in Nodes', Minded(inv'[k]), NEW i \in Nat,
              Append(k, i) \in Nodes', inv'[Append(k, i)].st \in {"asked", "running"}
       PROVE  i \in inv'[k].first..inv'[k].born
  <2>1. CASE k = n
    BY <1>1, <1>8, <1>11, <2>1 DEF Minds, Under
  <2>2. CASE k # n /\ Append(k, i) = n
    <3>1. n \in Nodes /\ k \in Nodes /\ inv'[k] = inv[k]
      BY <1>7, <2>2
    <3>2. CASE Under(n)
      BY <1>11, <2>2, <3>1, <3>2 DEF Tidy, Minds
    <3>3. CASE Awaited(n)
      <4>1. k \in Seq(Nat) /\ Front(n) = k
        BY <1>3, <2>2, FrontOf
      <4>2. PICK j \in inv[k].first..inv[k].born : n = Append(k, j)
        BY <3>3, <4>1 DEF Awaited, Group
      <4>3. j \in Nat
        BY <1>2, <3>1
      <4>4. i = j
        BY <2>2, <4>1, <4>2, <4>3, OneParent
      <4> QED
        BY <3>1, <4>2, <4>4
    <3> QED
      BY <1>1, <3>1, <3>2, <3>3
  <2>3. CASE k # n /\ Append(k, i) # n
    BY <1>6, <1>11, <2>3 DEF Tidy, Minds, Under
  <2> QED
    BY <2>1, <2>2, <2>3
<1>12. \A k \in Nodes' : Minds(k, inv[k])'
  BY <1>11 DEF Minds, Under
<1> QED
  BY <1>5, <1>9, <1>10, <1>12 DEF Tidy

LEMMA DeedKeepsDone ==
  ASSUME Good, Carries, NEW n, Deed(n), NEW p \in Nat, p # n[1] \/ n \in Nodes, Done(p)
  PROVE  Done(p)'
<1> DEFINE root == <<p>>
<1> SUFFICES ASSUME root \in Nodes'
             PROVE  inv'[root].st = "ended" /\ \A m \in Group(root)' : inv'[m].st = "ended"
  BY DEF Done
<1>1. /\ n \in Nodes'
      /\ n \in Nodes => Under(n) \/ Awaited(n)
      /\ n \notin Nodes => Len(n) = 1
      /\ \A m \in Nodes' : m # n => (m \in Nodes /\ inv'[m] = inv[m]) \/ Fresh(n, m)
  BY DEF Deed
<1>2. /\ Forest' /\ \A m \in Nodes' : inv'[m].first \in Nat \ {0} /\ inv'[m].born \in Nat
  BY DEF Carries, Fine, Record
<1>3. n \in Seq(Nat) /\ n # <<>>
  BY <1>1, <1>2 DEF Forest, Paths
<1>4. root \in Seq(Nat) /\ root # <<>> /\ Len(root) = 1 /\ root[1] = p
  OBVIOUS
<1> HIDE DEF root
<1>5. \A m : Fresh(n, m) => \E i \in Nat : m = Append(n, i)
  BY <1>1, <1>2 DEF Fresh
<1>6. ~Fresh(n, root)
  <2> SUFFICES ASSUME Fresh(n, root) PROVE FALSE
    OBVIOUS
  <2>1. PICK i \in Nat : root = Append(n, i)
    BY <1>5
  <2>2. root # <<root[1]>>
    BY <1>3, <2>1, ChildOf
  <2> QED
    BY <1>4, <2>2 DEF root
<1>7. root \in Nodes => inv[root].st = "ended" /\ \A m \in Group(root) : inv[m].st = "ended"
  BY Zenon DEF Done, root
<1>8. root # n
  <2> SUFFICES ASSUME root = n PROVE FALSE
    OBVIOUS
  <2>1. n \in Nodes
    BY <1>4
  <2>2. Awaited(n)
    BY <1>1, <1>7, <2>1 DEF Under
  <2>3. Front(n) = <<>>
    <3>1. Len(root) - 1 = 0
      BY <1>4
    <3>2. Front(root) = SubSeq(root, 1, 0)
      BY <3>1 DEF Front
    <3> QED
      BY <3>2
  <2> QED
    BY <2>2, <2>3 DEF Awaited, Good, Forest, Paths
<1>9. root \in Nodes /\ inv'[root] = inv[root]
  BY <1>1, <1>6, <1>8
<1>10. ASSUME NEW m \in Group(root)' PROVE inv'[m].st = "ended"
  <2>1. m \in Group(root) /\ m \in Nodes /\ m \in Nodes'
    BY <1>2, <1>9, Kin DEF Good, Group, Forest, Asks
  <2>2. PICK i \in inv[root].first..inv[root].born : m = Append(root, i)
    BY <2>1 DEF Group
  <2>3. i \in Nat
    BY <1>9, Typed
  <2>4. m # n
    <3> SUFFICES ASSUME m = n PROVE FALSE
      OBVIOUS
    <3>1. Front(n) = root
      BY <1>4, <2>2, <2>3, FrontOf
    <3>2. Awaited(n)
      BY <1>1, <1>7, <1>9, <2>1, <3>1 DEF Under
    <3> QED
      BY <1>7, <1>9, <3>1, <3>2 DEF Awaited
  <2>5. ~Fresh(n, m)
    <3> SUFFICES ASSUME Fresh(n, m) PROVE FALSE
      OBVIOUS
    <3>1. PICK j \in Nat : m = Append(n, j)
      BY <1>5
    <3> QED
      BY <1>3, <1>4, <1>8, <2>2, <2>3, <3>1, OneParent
  <2> QED
    BY <1>1, <1>7, <1>9, <2>1, <2>4, <2>5
<1> QED
  BY <1>7, <1>9, <1>10

-----------------------------------------------------------------------------
(* What makes a step a deed. *)

(* None of those that n has asked for is under way. *)
Idle(n) == \A i \in Nat : Append(n, i) \in Nodes => ~Under(Append(n, i))

LEMMA ChangeIsDeed ==
  ASSUME Good, Tidy, NEW n \in Nodes, Under(n) \/ Awaited(n),
         NEW r, r.fn = inv[n].fn, r.first = inv[n].first, r.born = inv[n].born,
         Plain(r), Minded(r) => Minded(inv[n]) \/ Idle(n),
         inv' = [inv EXCEPT ![n] = r]
  PROVE  Deed(n)
<1>1. Nodes' = Nodes /\ inv'[n] = r /\ \A m \in Nodes : m # n => inv'[m] = inv[m]
  BY DEF Nodes
<1>2. n[1] \in Posts /\ Minds(n, inv[n])
  BY DEF Tidy
<1>3. Minds(n, r)
  BY <1>2 DEF Minds, Idle
<1> QED
  BY <1>1, <1>2, <1>3 DEF Deed

LEMMA GoesIsDeed ==
  ASSUME Good, Tidy, NEW n \in Nodes, Under(n),
         NEW base, NEW next, next.fn = inv[n].fn, Plain(next), Minded(next) => Idle(n),
         NEW jobs, Len(jobs) \in Nat,
         \A i \in 1..Len(jobs) :
           jobs[i].fn \in Invoked(inv[n].fn) /\ Plain(jobs[i]) /\ Unborn(jobs[i]),
         Goes(n, base, next, jobs)
  PROVE  Deed(n)
<1> DEFINE kids == Children(n, base, jobs)
<1>1. /\ base \in Nat /\ Forgets(n, Past(n), base)
      /\ next.first = base + 1 /\ next.born = base + Len(jobs)
      /\ n \notin Past(n) /\ inv'[n] = next
      /\ Nodes' = (Nodes \ Past(n)) \cup kids
      /\ \A m \in Nodes \ Past(n) : m # n /\ m \notin kids => inv'[m] = inv[m]
  BY DEF Goes
<1>2. \A m \in kids : \E i \in 1..Len(jobs) : m = Append(n, base + i) /\ inv'[m] = jobs[i]
  BY DEF Goes
<1>3. n \in Nodes' /\ n[1] \in Posts
  BY <1>1 DEF Tidy
<1>4. Minds(n, next)
  BY DEF Minds, Idle
<1>5. \A m \in Nodes : m # n /\ Under(m) => m \in Nodes' /\ inv'[m] = inv[m]
  BY <1>1, Survive
<1>6. \A m \in kids : Fresh(n, m)
  <2> TAKE m \in kids
  <2>1. PICK i \in 1..Len(jobs) : m = Append(n, base + i) /\ inv'[m] = jobs[i]
    BY <1>2
  <2>2. base + i \in (base + 1)..(base + Len(jobs)) /\ base + i # 0
    BY <1>1
  <2> QED
    BY <1>1, <2>1, <2>2 DEF Fresh
<1>7. \A m \in Nodes' : m # n => (m \in Nodes /\ inv'[m] = inv[m]) \/ Fresh(n, m)
  BY <1>1, <1>6
<1> QED
  BY <1>1, <1>3, <1>4, <1>5, <1>7 DEF Deed

LEMMA SpawnIsDeed ==
  ASSUME Good, Tidy, NEW n \in Nodes, inv[n].st = "running", inv[n].fn # "mcp",
         NEW r \in Record, r.fn = inv[n].fn, r.st = inv[n].st, r.phase # "begin",
         r.tries = inv[n].tries, r.ok = inv[n].ok,
         Minded(r) => Idle(n),
         NEW jobs, Len(jobs) \in Nat,
         r.fn = "call" => r.phase = "run" /\ Len(jobs) = 1,
         \A i \in 1..Len(jobs) :
           jobs[i].fn \in Invoked(inv[n].fn) /\ Plain(jobs[i]) /\ Unborn(jobs[i]),
         Spawn(n, r, jobs)
  PROVE  Deed(n)
<1>1. PICK base \in Nat, next \in Record : Same(next, r) /\ Goes(n, base, next, jobs)
  BY SpawnGoes
<1>2. next.first = base + 1 /\ next.born = base + Len(jobs)
  BY <1>1 DEF Goes
<1>3. /\ next.fn = r.fn /\ next.st = r.st /\ next.phase = r.phase /\ next.tries = r.tries
      /\ next.ok = r.ok /\ next.status = r.status
  BY <1>1 DEF Same
<1>4. Plain(inv[n]) /\ inv[n] \in Record
  BY DEF Tidy, Good, Fine
<1>5. inv[n].ok \in Nat /\ inv[n].tries \in Nat
  BY <1>4 DEF Record
<1>6. next.fn = "call" => next.ok =< next.tries /\ next.ok =< next.tries + 1
  BY <1>3, <1>4, <1>5 DEF Plain, Under
<1>7. next.fn = "call" => next.first = next.born /\ next.phase = "run"
  BY <1>2, <1>3
<1>8. Plain(next)
  BY <1>3, <1>6, <1>7 DEF Plain, Under
<1>9. Minded(next) => Minded(r)
  BY <1>3 DEF Minded
<1>10. Under(n)
  BY DEF Under
<1> QED
  BY <1>1, <1>3, <1>8, <1>9, <1>10, GoesIsDeed

LEMMA ReturnIsDeed ==
  ASSUME Good, Tidy, NEW n \in Nodes, inv[n].st = "running", inv[n].fn # "mcp",
         NEW r \in Record, r.fn = inv[n].fn, r.tries = inv[n].tries, NEW status \in Nat,
         r.fn = "call" => r.ok =< r.tries + 1 /\ Told(r, status),
         r.fn = "call" \/ (r.fn = "answer" /\ r.tries = 0 /\ status = 200) => Idle(n),
         Returned(n, r, status)
  PROVE  Deed(n)
<1> DEFINE ended == [r EXCEPT !.st = "ended", !.status = status, !.phase = "begin"]
<1>1. PICK base \in Nat, next \in Record : Same(next, ended) /\ Goes(n, base, next, <<>>)
  BY ReturnGoes
<1>2. /\ ended.fn = r.fn /\ ended.st = "ended" /\ ended.phase = "begin" /\ ended.status = status
      /\ ended.tries = r.tries /\ ended.ok = r.ok /\ ended.bad = r.bad
  BY DEF Record
<1> HIDE DEF ended
<1>3. next.first = base + 1 /\ next.born = base
  BY <1>1 DEF Goes
<1>4. /\ next.fn = r.fn /\ next.st = "ended" /\ next.phase = "begin" /\ next.status = status
      /\ next.tries = r.tries /\ next.ok = r.ok /\ next.bad = r.bad
  BY <1>1, <1>2 DEF Same
<1>5. next.first = next.born + 1
  BY <1>3
<1>6. Plain(next)
  BY <1>4, <1>5 DEF Plain, Told
<1>7. Minded(next) => Idle(n)
  BY <1>4 DEF Minded
<1>8. Len(<<>>) = 0 /\ 1..0 = {}
  OBVIOUS
<1>9. Under(n)
  BY DEF Under
<1> QED
  BY <1>1, <1>4, <1>6, <1>7, <1>8, <1>9, GoesIsDeed

LEMMA AskedIsPlain ==
  ASSUME NEW fn, NEW pin, NEW form, fn # "mcp"
  PROVE  Plain(Job(fn, pin, form)) /\ Unborn(Job(fn, pin, form)) /\ Job(fn, pin, form).fn = fn
BY DEF Plain, Unborn, Job

-----------------------------------------------------------------------------
(* When nothing is under way below. *)

(* Whoever waits for the first time has asked for nothing. *)
LEMMA NobodyYet ==
  ASSUME Good, Tidy, NEW n \in Nodes, Under(n),
         inv[n].fn # "mcp", inv[n].phase = "begin", inv[n].tries = 0
  PROVE  Idle(n)
<1>1. inv[n].born = 0
  BY DEF Tidy, Plain, Under
<1>2. \A i \in Nat : Append(n, i) \in Nodes => i =< 0 /\ i # 0
  BY <1>1 DEF Good, Forest, Linked, Tidy, Kinship
<1> QED
  BY <1>2 DEF Idle

(* What a call has under way is its one sandbox. *)
LEMMA OneSandbox ==
  ASSUME Good, Tidy, NEW n \in Nodes, inv[n].fn = "call",
         NEW i \in Nat, Append(n, i) \in Nodes, Under(Append(n, i))
  PROVE  inv[n].phase = "run" /\ i = inv[n].born /\ Append(n, i) \in Group(n)
<1>1. i \in inv[n].first..inv[n].born
  BY DEF Tidy, Minds, Minded
<1>2. inv[n].first \in Nat /\ inv[n].born \in Nat
  BY Typed
<1>3. inv[n].first = IF inv[n].phase = "run" THEN inv[n].born ELSE inv[n].born + 1
  BY DEF Tidy, Plain
<1>4. inv[n].phase = "run" /\ i = inv[n].born
  BY <1>1, <1>2, <1>3
<1>5. Append(n, i) \in Group(n)
  BY <1>1 DEF Group
<1> QED
  BY <1>4, <1>5

LEMMA CallIdle ==
  ASSUME Good, Tidy, NEW n \in Nodes, inv[n].fn = "call",
         inv[n].phase # "run" \/ Settled(n) \/ GivenUp(n) \/ Casualty(n)
  PROVE  Idle(n)
<1> SUFFICES ASSUME NEW i \in Nat, Append(n, i) \in Nodes, Under(Append(n, i))
             PROVE  FALSE
  BY DEF Idle
<1>1. /\ inv[n].phase = "run" /\ i = inv[n].born /\ Append(n, i) \in Group(n)
      /\ inv[n].first = inv[n].born /\ inv[n].born \in Nat
  BY OneSandbox, Typed DEF Tidy, Plain
<1>2. \A m \in Group(n) : m = Append(n, i)
  <2> TAKE m \in Group(n)
  <2>1. PICK j \in inv[n].first..inv[n].born : m = Append(n, j)
    BY DEF Group
  <2>2. j = i
    BY <1>1, <2>1
  <2> QED
    BY <2>1, <2>2
<1>3. \A m \in Group(n) : inv[m].st \in {"asked", "running"}
  BY <1>2 DEF Under
<1> QED
  BY <1>1, <1>3 DEF Settled, GivenUp, Casualty

LEMMA AnswerIdle ==
  ASSUME Good, Tidy, NEW n \in Nodes, inv[n].fn = "answer", inv[n].st = "running",
         inv[n].tries = 0, Settled(n)
  PROVE  Idle(n)
<1> SUFFICES ASSUME NEW i \in Nat, Append(n, i) \in Nodes, Under(Append(n, i))
             PROVE  FALSE
  BY DEF Idle
<1>1. i \in inv[n].first..inv[n].born
  BY DEF Tidy, Minds, Minded
<1>2. Append(n, i) \in Group(n)
  BY <1>1 DEF Group
<1> QED
  BY <1>2 DEF Settled, Under

-----------------------------------------------------------------------------
(* Every step is a deed of somebody. *)

LEMMA Known ==
  ASSUME Good, Tidy, NEW n \in Nodes
  PROVE  inv[n] \in Record /\ Plain(inv[n]) /\ inv[n].ok \in Nat /\ inv[n].tries \in Nat
BY DEF Good, Fine, Tidy, Record

LEMMA BeginIsDeed ==
  ASSUME Good, Tidy, NEW n \in Nodes, Begin(n)
  PROVE  Deed(n)
<1> DEFINE r == [inv[n] EXCEPT !.st = "running", !.late = suspended]
<1>1. inv[n] \in Record /\ Plain(inv[n]) /\ inv[n].st = "asked" /\ Under(n)
  BY Known DEF Begin, Admit, Under
<1>2. /\ r.fn = inv[n].fn /\ r.st = "running" /\ r.phase = inv[n].phase /\ r.tries = inv[n].tries
      /\ r.first = inv[n].first /\ r.born = inv[n].born /\ r.status = inv[n].status
      /\ r.ok = inv[n].ok
  BY <1>1 DEF Record
<1>3. inv' = [inv EXCEPT ![n] = r]
  BY DEF Begin, Admit, Set
<1> HIDE DEF r
<1>4. Plain(r)
  BY <1>1, <1>2 DEF Plain
<1>5. Minded(r) => Minded(inv[n]) \/ Idle(n)
  <2>1. inv[n].phase = "begin"
    BY <1>1 DEF Plain
  <2> QED
    BY <1>1, <1>2, <2>1, NobodyYet DEF Minded
<1> QED
  BY <1>1, <1>2, <1>3, <1>4, <1>5, ChangeIsDeed

LEMMA AgainPlain ==
  ASSUME Good, Tidy, NEW n \in Nodes, inv[n].st \in {"asked", "ended"}
  PROVE  LET r == Again(inv[n])
         IN  /\ Plain(r) /\ r.fn = inv[n].fn /\ (Minded(r) => Minded(inv[n]))
             /\ r.first = inv[n].first /\ r.born = inv[n].born
<1> DEFINE again == [inv[n] EXCEPT !.st = "asked", !.phase = "begin", !.tries = inv[n].tries + 1]
           never == [inv[n] EXCEPT !.st = "refused"]
<1>1. inv[n] \in Record /\ Plain(inv[n]) /\ inv[n].ok \in Nat /\ inv[n].tries \in Nat
  BY Known
<1>2. /\ again.fn = inv[n].fn /\ again.st = "asked" /\ again.phase = "begin"
      /\ again.tries = inv[n].tries + 1 /\ again.ok = inv[n].ok
      /\ again.first = inv[n].first /\ again.born = inv[n].born
  BY <1>1 DEF Record
<1>3. /\ never.fn = inv[n].fn /\ never.st = "refused" /\ never.phase = inv[n].phase
      /\ never.tries = inv[n].tries /\ never.ok = inv[n].ok
      /\ never.first = inv[n].first /\ never.born = inv[n].born
  BY <1>1 DEF Record
<1>4. Again(inv[n]) = again \/ Again(inv[n]) = never
  BY DEF Again
<1> HIDE DEF again, never
<1>5. inv[n].phase = "begin"
  BY <1>1 DEF Plain
<1>6. again.tries # 0 /\ again.ok =< again.tries + 1 /\ inv[n].ok =< inv[n].tries + 1 =>
        again.tries # 0 /\ again.ok =< again.tries
  BY <1>1, <1>2
<1>7. inv[n].fn = "call" => again.ok =< again.tries /\ again.ok =< again.tries + 1
  <2>1. inv[n].fn = "call" => inv[n].ok =< inv[n].tries + 1
    BY <1>1 DEF Plain
  <2> QED
    BY <1>1, <1>2, <2>1
<1>8. again.tries # 0
  BY <1>1, <1>2
<1>9. Plain(again) /\ (Minded(again) => Minded(inv[n]))
  BY <1>1, <1>2, <1>5, <1>7, <1>8 DEF Plain, Minded
<1>10. Plain(never) /\ (Minded(never) => Minded(inv[n]))
  BY <1>1, <1>3, <1>5 DEF Plain, Minded
<1> QED
  BY <1>2, <1>3, <1>4, <1>9, <1>10

LEMMA WaitIsDeed ==
  ASSUME Good, Tidy, NEW n \in Nodes, Wait(n)
  PROVE  Deed(n)
<1>1. inv[n].st = "asked" /\ inv' = [inv EXCEPT ![n] = Again(inv[n])] /\ Under(n)
  BY DEF Wait, Throttle, Set, Under
<1> QED
  BY <1>1, AgainPlain, ChangeIsDeed

LEMMA LoseReplyIsDeed ==
  ASSUME Good, Tidy, NEW n \in Nodes, LoseReply(n)
  PROVE  Deed(n)
<1>1. inv[n].st = "ended" /\ inv' = [inv EXCEPT ![n] = Again(inv[n])] /\ Awaited(n)
  BY DEF LoseReply, Lose
<1> QED
  BY <1>1, AgainPlain, ChangeIsDeed

LEMMA DieIsDeed ==
  ASSUME Good, Tidy, NEW n \in Nodes, Die(n)
  PROVE  Deed(n)
<1> DEFINE r == [inv[n] EXCEPT !.st = "killed"]
<1>1. inv[n] \in Record /\ Plain(inv[n]) /\ Under(n)
  BY Known DEF Die, Kill, Under
<1>2. /\ r.fn = inv[n].fn /\ r.st = "killed" /\ r.phase = inv[n].phase /\ r.tries = inv[n].tries
      /\ r.first = inv[n].first /\ r.born = inv[n].born /\ r.ok = inv[n].ok
  BY <1>1 DEF Record
<1>3. inv' = [inv EXCEPT ![n] = r]
  BY DEF Die, Kill
<1> HIDE DEF r
<1>4. Plain(r) /\ (Minded(r) => Minded(inv[n]))
  BY <1>1, <1>2 DEF Plain, Minded
<1> QED
  BY <1>1, <1>2, <1>3, <1>4, ChangeIsDeed

LEMMA AnsweredIsDeed ==
  ASSUME Good, Tidy, NEW p \in Nat, NEW answer, <<p>> \in Nodes, Answered(p, answer)
  PROVE  Deed(<<p>>)
<1> DEFINE n == <<p>>
           r == [inv[n] EXCEPT !.st = "ended", !.status = 200]
<1>1. /\ inv[n] \in Record /\ Plain(inv[n]) /\ Under(n) /\ inv[n].fn = "mcp"
  BY Known DEF Answered, Under, Good, AtTheEndpoint
<1>2. /\ r.fn = inv[n].fn /\ r.st = "ended" /\ r.phase = inv[n].phase
      /\ r.first = inv[n].first /\ r.born = inv[n].born
  BY <1>1 DEF Record
<1>3. inv' = [inv EXCEPT ![n] = r]
  BY DEF Answered, Set
<1> HIDE DEF r
<1>4. Plain(r) /\ ~Minded(r)
  BY <1>1, <1>2 DEF Plain, Minded
<1> HIDE DEF n
<1>5. n \in Nodes
  BY DEF n
<1>6. Deed(n)
  BY <1>1, <1>2, <1>3, <1>4, <1>5, ChangeIsDeed
<1> QED
  BY <1>6 DEF n

LEMMA VerifyIsDeed ==
  ASSUME Good, Tidy, NEW n \in Nodes,
         Verify(n, IF inv[n].fn = "search" THEN "rank" ELSE "resolve")
  PROVE  Deed(n)
<1>1. /\ inv[n] \in Record /\ Plain(inv[n]) /\ inv[n].ok \in Nat /\ inv[n].tries \in Nat
      /\ inv[n].st = "running" /\ inv[n].fn \in {"search", "call"} /\ inv[n].phase = "begin"
  BY Known DEF Verify, At
<1>2. CASE Goto(n, IF inv[n].fn = "search" THEN "rank" ELSE "resolve")
  <2> DEFINE r == [inv[n] EXCEPT !.phase = IF inv[n].fn = "search" THEN "rank" ELSE "resolve"]
  <2>1. /\ r.fn = inv[n].fn /\ r.st = "running" /\ r.phase # "begin" /\ r.tries = inv[n].tries
        /\ r.fn = "call" => r.phase = "resolve"
        /\ r.first = inv[n].first /\ r.born = inv[n].born /\ r.ok = inv[n].ok
    BY <1>1 DEF Record
  <2>2. inv' = [inv EXCEPT ![n] = r]
    BY <1>2 DEF Goto, Set
  <2> HIDE DEF r
  <2>3. Plain(r) /\ (Minded(r) => Minded(inv[n]))
    BY <1>1, <2>1 DEF Plain, Minded
  <2>4. Under(n)
    BY <1>1 DEF Under
  <2> QED
    BY <2>1, <2>2, <2>3, <2>4, ChangeIsDeed
<1>3. CASE Return(n, inv[n], 403)
  <2>1. inv[n].fn = "call" => inv[n].ok =< inv[n].tries + 1 /\ Told(inv[n], 403)
    BY <1>1 DEF Plain, Told
  <2>2. inv[n].fn = "call" => Idle(n)
    BY <1>1, CallIdle
  <2> QED
    BY <1>1, <1>3, <2>1, <2>2, ReturnIsDeed DEF Return
<1> QED
  BY <1>2, <1>3 DEF Verify

LEMMA RankIsDeed ==
  ASSUME Good, Tidy, NEW n \in Nodes, newest \in Versions, Rank(n)
  PROVE  Deed(n)
<1>1. /\ inv[n] \in Record /\ inv[n].ok \in Nat
      /\ inv[n].fn = "search" /\ inv[n].st = "running"
  BY Known DEF Rank, At
<1>2. PICK v \in 1..newest :
        Returned(n, [inv[n] EXCEPT !.ver = v, !.form = FormShown(v), !.ok = @ + 1], 200)
  BY DEF Rank, Return
<1> DEFINE r == [inv[n] EXCEPT !.ver = v, !.form = Form[v], !.ok = inv[n].ok + 1]
<1>3. v \in 0..MaxVersion /\ Form[v] \in Shown /\ inv[n].ok + 1 \in Nat
  BY <1>1, CatalogAssumption DEF Versions, Shown
<1>4. r \in Record /\ r.fn = inv[n].fn /\ r.tries = inv[n].tries
  BY <1>1, <1>3 DEF Record
<1>5. Returned(n, r, 200)
  BY <1>2 DEF FormShown, Return
<1> HIDE DEF r
<1> QED
  BY <1>1, <1>4, <1>5, ReturnIsDeed

LEMMA ResolveIsDeed ==
  ASSUME Good, Tidy, NEW n \in Nodes, Resolve(n)
  PROVE  Deed(n)
<1> DEFINE r == [inv[n] EXCEPT !.ver = Resolved(inv[n].pin), !.phase = "gate"]
<1>1. /\ inv[n] \in Record /\ Plain(inv[n]) /\ inv[n].fn = "call"
      /\ inv[n].st = "running" /\ inv[n].phase = "resolve" /\ Under(n)
  BY Known DEF Resolve, At, Under
<1>2. /\ r.fn = "call" /\ r.st = "running" /\ r.phase = "gate" /\ r.tries = inv[n].tries
      /\ r.first = inv[n].first /\ r.born = inv[n].born /\ r.ok = inv[n].ok
  BY <1>1 DEF Record
<1>3. inv' = [inv EXCEPT ![n] = r]
  BY DEF Resolve, Set
<1> HIDE DEF r
<1>4. Plain(r) /\ (Minded(r) => Minded(inv[n]))
  BY <1>1, <1>2 DEF Plain, Minded
<1> QED
  BY <1>1, <1>2, <1>3, <1>4, ChangeIsDeed

LEMMA FailedKeeps ==
  ASSUME NEW r \in Record, NEW bad \in Nat
  PROVE  LET s == [r EXCEPT !.bad = bad, !.ver = 0, !.left = 0]
         IN  s.tries = r.tries /\ s.ok = r.ok /\ s.bad = bad
BY DEF Record

LEMMA FailIsDeed ==
  ASSUME Good, Tidy, NEW n \in Nodes, inv[n].fn = "call", inv[n].st = "running",
         NEW status \in Nat, status # 200, Idle(n), Fail(n, status)
  PROVE  Deed(n)
<1> DEFINE r == [inv[n] EXCEPT !.bad = inv[n].bad + 1, !.ver = 0, !.left = 0]
<1>1. inv[n] \in Record /\ Plain(inv[n]) /\ inv[n].ok \in Nat /\ inv[n].tries \in Nat
  BY Known
<1>2. inv[n].bad + 1 \in Nat /\ inv[n].bad + 1 > 0
  BY <1>1 DEF Record
<1>3. /\ r \in Record /\ r.fn = inv[n].fn /\ r.tries = inv[n].tries /\ r.ok = inv[n].ok
      /\ r.bad > 0
  BY <1>1, <1>2, Failed, FailedKeeps
<1>4. Returned(n, r, status)
  BY DEF Fail, Return
<1> HIDE DEF r
<1>5. inv[n].ok =< inv[n].tries /\ inv[n].ok =< inv[n].tries + 1
  BY <1>1 DEF Plain
<1>6. Told(r, status)
  BY <1>3, <1>5 DEF Told
<1> QED
  BY <1>3, <1>4, <1>5, <1>6, ReturnIsDeed

LEMMA InvokeNextIsDeed ==
  ASSUME Good, Tidy, NEW n \in Nodes, inv[n].fn = "call", inv[n].st = "running",
         NEW left \in Int, Idle(n), InvokeNext(n, left)
  PROVE  Deed(n)
<1> DEFINE job == Job("sandbox", 0, Form[1])
           r   == [inv[n] EXCEPT !.phase = "run", !.ver = 0, !.left = left - 1]
<1>1. inv[n] \in Record
  BY Known
<1>2. left - 1 \in Int /\ 0 \in 0..MaxVersion
  BY CatalogAssumption
<1>3. /\ r \in Record /\ r.fn = "call" /\ r.phase = "run" /\ r.st = inv[n].st
      /\ r.tries = inv[n].tries /\ r.ok = inv[n].ok
  BY <1>1, <1>2 DEF Record, Phases
<1>4. Plain(job) /\ Unborn(job) /\ job.fn \in Invoked("call")
  BY AskedIsPlain DEF Invoked
<1> HIDE DEF job
<1> DEFINE jobs == <<job>>
<1>5. Len(jobs) = 1 /\ Len(jobs) \in Nat /\ \A i \in 1..Len(jobs) : jobs[i] = job
  OBVIOUS
<1>6. Spawn(n, r, jobs)
  BY DEF InvokeNext, NextSandboxes, Sandbox, job
<1> HIDE DEF r, jobs
<1> QED
  BY <1>3, <1>4, <1>5, <1>6, SpawnIsDeed

LEMMA GateIsDeed ==
  ASSUME Good, Tidy, NEW n \in Nodes, Gate(n)
  PROVE  Deed(n)
<1>1. inv[n].fn = "call" /\ inv[n].st = "running" /\ inv[n].phase = "gate"
  BY DEF Gate, At
<1>2. Idle(n)
  BY <1>1, CallIdle
<1>3. CASE Fail(n, 403)
  BY <1>1, <1>2, <1>3, FailIsDeed
<1>4. CASE Fail(n, 400)
  BY <1>1, <1>2, <1>4, FailIsDeed
<1>5. CASE InvokeNext(n, Sandboxes)
  BY <1>1, <1>2, <1>5, WorkAssumption, InvokeNextIsDeed
<1> QED
  BY <1>3, <1>4, <1>5 DEF Gate

LEMMA RunFailsIsDeed ==
  ASSUME Good, Tidy, NEW n \in Nodes, RunFails(n)
  PROVE  Deed(n)
<1>1. /\ inv[n].fn = "call" /\ inv[n].st = "running"
      /\ Settled(n) \/ GivenUp(n) \/ Casualty(n)
  BY DEF RunFails, At
<1>2. PICK status \in {422, 500, 502} : Fail(n, status)
  BY DEF RunFails
<1> QED
  BY <1>1, <1>2, CallIdle, FailIsDeed

LEMMA RunGoesOnIsDeed ==
  ASSUME Good, Tidy, NEW n \in Nodes, RunGoesOn(n)
  PROVE  Deed(n)
<1>1. /\ inv[n] \in Record /\ Plain(inv[n]) /\ inv[n].ok \in Nat /\ inv[n].tries \in Nat
      /\ inv[n].fn = "call" /\ inv[n].st = "running" /\ Settled(n)
  BY Known DEF RunGoesOn, Worked, At
<1>2. Idle(n)
  BY <1>1, CallIdle
<1>3. CASE InvokeNext(n, inv[n].left)
  <2>1. inv[n].left \in Int
    BY <1>1 DEF Record
  <2> QED
    BY <1>1, <1>2, <1>3, <2>1, InvokeNextIsDeed
<1>4. CASE Return(n, [inv[n] EXCEPT !.ok = @ + 1], 200)
  <2> DEFINE r == [inv[n] EXCEPT !.ok = inv[n].ok + 1]
  <2>1. r \in Record /\ r.fn = inv[n].fn /\ r.tries = inv[n].tries /\ r.ok = inv[n].ok + 1
    BY <1>1 DEF Record
  <2>2. Returned(n, r, 200)
    BY <1>4 DEF Return
  <2> HIDE DEF r
  <2>3. inv[n].ok =< inv[n].tries
    BY <1>1 DEF Plain
  <2>4. r.ok =< r.tries + 1 /\ Told(r, 200)
    BY <1>1, <2>1, <2>3 DEF Told
  <2> QED
    BY <1>1, <1>2, <2>1, <2>2, <2>4, ReturnIsDeed
<1> QED
  BY <1>3, <1>4 DEF RunGoesOn

LEMMA DependencyRefusesIsDeed ==
  ASSUME Good, Tidy, NEW n \in Nodes, DependencyRefuses(n)
  PROVE  Deed(n)
<1>1. /\ inv[n].fn = "call" /\ inv[n].st = "running"
      /\ inv[n].phase # "run" \/ Settled(n)
  BY DEF DependencyRefuses, Worked, At
<1>2. PICK status \in Refusals : Fail(n, status)
  BY DEF DependencyRefuses
<1>3. status \in Nat /\ status # 200
  BY WorkAssumption
<1> QED
  BY <1>1, <1>2, <1>3, CallIdle, FailIsDeed

LEMMA TableThrowsIsDeed ==
  ASSUME Good, Tidy, NEW n \in Nodes, TableThrows(n)
  PROVE  Deed(n)
<1>1. /\ inv[n] \in Record /\ Plain(inv[n]) /\ inv[n].ok \in Nat /\ inv[n].tries \in Nat
      /\ inv[n].fn = "call" /\ inv[n].st = "running" /\ Idle(n)
  BY Known, WhatIsCaught, CallIdle
<1>2. PICK stored \in {0, 1} : Returned(n, Caught(inv[n], stored), 500)
  BY WhatIsCaught
<1> DEFINE r == Caught(inv[n], stored)
<1>3. /\ r \in Record /\ r.fn = inv[n].fn /\ r.tries = inv[n].tries
      /\ r.ok = inv[n].ok + stored /\ r.bad = inv[n].bad + 1
  BY <1>1, CaughtIsRecord
<1> HIDE DEF r
<1>4. inv[n].ok =< inv[n].tries /\ inv[n].bad \in Nat
  BY <1>1 DEF Plain, Record
<1>5. r.ok =< r.tries + 1 /\ Told(r, 500)
  BY <1>1, <1>3, <1>4 DEF Told
<1> QED
  BY <1>1, <1>2, <1>3, <1>5, ReturnIsDeed DEF r

LEMMA RunSandboxIsDeed ==
  ASSUME Good, Tidy, NEW n \in Nodes, RunSandbox(n)
  PROVE  Deed(n)
<1>1. inv[n] \in Record /\ inv[n].fn = "sandbox" /\ inv[n].st = "running"
  BY Known DEF RunSandbox, At
<1>2. PICK status \in {200, 422} : Returned(n, inv[n], status)
  BY DEF RunSandbox, Return
<1> QED
  BY <1>1, <1>2, ReturnIsDeed

LEMMA AnswerReturnIsDeed ==
  ASSUME Good, Tidy, NEW n \in Nodes, inv[n].fn = "answer", inv[n].st = "running",
         NEW status \in Nat, status = 200 => Settled(n), Returned(n, inv[n], status)
  PROVE  Deed(n)
<1>1. inv[n] \in Record
  BY Known
<1>2. inv[n].tries = 0 /\ status = 200 => Idle(n)
  BY AnswerIdle
<1> QED
  BY <1>1, <1>2, ReturnIsDeed

LEMMA AnswerSpawnIsDeed ==
  ASSUME Good, Tidy, NEW n \in Nodes, inv[n].fn = "answer", inv[n].st = "running",
         inv[n].tries = 0 => Idle(n),
         NEW phase \in Phases, phase # "begin", NEW jobs, Len(jobs) \in Nat,
         \A i \in 1..Len(jobs) :
           jobs[i].fn \in Invoked("answer") /\ Plain(jobs[i]) /\ Unborn(jobs[i]),
         Spawn(n, [inv[n] EXCEPT !.phase = phase], jobs)
  PROVE  Deed(n)
<1> DEFINE r == [inv[n] EXCEPT !.phase = phase]
<1>1. inv[n] \in Record
  BY Known
<1>2. /\ r \in Record /\ r.fn = inv[n].fn /\ r.st = inv[n].st /\ r.phase = phase
      /\ r.tries = inv[n].tries /\ r.ok = inv[n].ok
  BY <1>1 DEF Record
<1>3. Spawn(n, r, jobs)
  OBVIOUS
<1> HIDE DEF r
<1>4. Minded(r) => Idle(n)
  BY <1>2 DEF Minded
<1> QED
  BY <1>2, <1>3, <1>4, SpawnIsDeed

LEMMA AnswerSearchesIsDeed ==
  ASSUME Good, Tidy, NEW n \in Nodes, AnswerSearches(n)
  PROVE  Deed(n)
<1> DEFINE job == Job("search", 0, Form[1])
<1>1. Plain(job) /\ Unborn(job) /\ job.fn \in Invoked("answer")
  BY AskedIsPlain DEF Invoked
<1>2. /\ inv[n].fn = "answer" /\ inv[n].st = "running" /\ inv[n].phase = "begin"
      /\ Spawn(n, [inv[n] EXCEPT !.phase = "search"], <<job>>)
  BY DEF AnswerSearches, At
<1> HIDE DEF job
<1> DEFINE jobs == <<job>>
<1>3. Len(jobs) \in Nat /\ \A i \in 1..Len(jobs) : jobs[i] = job
  OBVIOUS
<1> HIDE DEF jobs
<1>4. Spawn(n, [inv[n] EXCEPT !.phase = "search"], jobs)
  BY <1>2 DEF jobs
<1>5. inv[n].tries = 0 => Idle(n)
  BY <1>2, NobodyYet DEF Under
<1>6. "search" \in Phases /\ "search" # "begin"
  BY DEF Phases
<1> QED
  BY <1>1, <1>2, <1>3, <1>4, <1>5, <1>6, AnswerSpawnIsDeed

LEMMA AnswerReachesIsDeed ==
  ASSUME Good, Tidy, NEW n \in Nodes, AnswerReaches(n)
  PROVE  Deed(n)
<1>1. inv[n].fn = "answer" /\ inv[n].st = "running" /\ Settled(n)
  BY DEF AnswerReaches, At
<1>2. CASE Return(n, inv[n], 200)
  BY <1>1, <1>2, AnswerReturnIsDeed DEF Return
<1>3. ASSUME NEW found \in Group(n), NEW uses \in 1..Uses,
             Spawn(n, [inv[n] EXCEPT !.phase = "calls"],
                   [i \in 1..uses |-> Job("call", 0, inv[found].form)])
      PROVE  Deed(n)
  <2> DEFINE job  == Job("call", 0, inv[found].form)
             jobs == [i \in 1..uses |-> job]
  <2>1. Plain(job) /\ Unborn(job) /\ job.fn \in Invoked("answer")
    BY AskedIsPlain DEF Invoked
  <2>2. Spawn(n, [inv[n] EXCEPT !.phase = "calls"], jobs)
    BY <1>3
  <2> HIDE DEF job
  <2>3. uses \in Nat
    BY WorkAssumption
  <2>4. Len(jobs) = uses /\ \A i \in 1..uses : jobs[i] = job
    BY <2>3
  <2> HIDE DEF jobs
  <2>5. inv[n].tries = 0 => Idle(n)
    BY <1>1, AnswerIdle
  <2>6. "calls" \in Phases /\ "calls" # "begin"
    BY DEF Phases
  <2> QED
    BY <1>1, <2>1, <2>2, <2>3, <2>4, <2>5, <2>6, AnswerSpawnIsDeed
<1> QED
  BY <1>2, <1>3 DEF AnswerReaches

LEMMA AnswerFailsIsDeed ==
  ASSUME Good, Tidy, NEW n \in Nodes, AnswerFails(n)
  PROVE  Deed(n)
<1>1. inv[n].fn = "answer" /\ inv[n].st = "running"
  BY DEF AnswerFails, At
<1>2. PICK status \in {403, 500} : Returned(n, inv[n], status)
  BY DEF AnswerFails, Return
<1> QED
  BY <1>1, <1>2, AnswerReturnIsDeed

LEMMA AnswerEndsIsDeed ==
  ASSUME Good, Tidy, NEW n \in Nodes, AnswerEnds(n)
  PROVE  Deed(n)
<1>1. inv[n].fn = "answer" /\ inv[n].st = "running"
  BY DEF AnswerEnds, At
<1>2. PICK status \in {200, 500} : Returned(n, inv[n], status) /\ (status = 200 => Settled(n))
  BY DEF AnswerEnds, Return
<1> QED
  BY <1>1, <1>2, AnswerReturnIsDeed

LEMMA ReplyIsDeed ==
  ASSUME Good, Tidy, NEW n \in Nodes, Len(n) = 1, ReplyList(n[1]) \/ ReplyError(n[1])
  PROVE  Deed(n)
<1>1. n \in Seq(Nat)
  BY Kin DEF Good
<1>2. n[1] \in Nat /\ n = <<n[1]>>
  BY <1>1
<1>3. PICK answer \in {"list", "error"} : Answered(n[1], answer)
  BY DEF ReplyList, ReplyError
<1>4. Deed(<<n[1]>>)
  BY <1>2, <1>3, AnsweredIsDeed
<1> QED
  BY <1>2, <1>4

LEMMA StepIsDeed ==
  ASSUME Good, Tidy, NEW n \in Nodes, newest \in Versions, Step(n)
  PROVE  Deed(n)
<1>1. CASE Len(n) = 1 /\ (ReplyList(n[1]) \/ ReplyError(n[1]))
  BY <1>1, ReplyIsDeed
<1>2. CASE Begin(n)
  BY <1>2, BeginIsDeed
<1>3. CASE Wait(n)
  BY <1>3, WaitIsDeed
<1>4. CASE Verify(n, IF inv[n].fn = "search" THEN "rank" ELSE "resolve")
  BY <1>4, VerifyIsDeed
<1>5. CASE Rank(n)
  BY <1>5, RankIsDeed
<1>6. CASE Resolve(n)
  BY <1>6, ResolveIsDeed
<1>7. CASE Gate(n)
  BY <1>7, GateIsDeed
<1>8. CASE RunGoesOn(n)
  BY <1>8, RunGoesOnIsDeed
<1>9. CASE RunFails(n)
  BY <1>9, RunFailsIsDeed
<1>10. CASE RunSandbox(n)
  BY <1>10, RunSandboxIsDeed
<1>11. CASE AnswerSearches(n)
  BY <1>11, AnswerSearchesIsDeed
<1>12. CASE AnswerReaches(n)
  BY <1>12, AnswerReachesIsDeed
<1>13. CASE AnswerFails(n)
  BY <1>13, AnswerFailsIsDeed
<1>14. CASE AnswerEnds(n)
  BY <1>14, AnswerEndsIsDeed
<1>15. CASE DependencyRefuses(n)
  BY <1>15, DependencyRefusesIsDeed
<1>16. CASE TableThrows(n)
  BY <1>16, TableThrowsIsDeed
<1> QED
  BY <1>1, <1>2, <1>3, <1>4, <1>5, <1>6, <1>7, <1>8, <1>9, <1>10, <1>11, <1>12, <1>13, <1>14,
     <1>15, <1>16
  DEF Step

LEMMA StartIsDeed ==
  ASSUME Good, Tidy, NEW p \in Nat, p \in Posts, <<p>> \notin Nodes,
         NEW r \in Record, r.fn = "mcp", r.st = "running", r.phase = "begin", r.first = 1,
         NEW jobs, Len(jobs) \in Nat,
         \A i \in 1..Len(jobs) : jobs[i].fn \in Kinds /\ Plain(jobs[i]) /\ Unborn(jobs[i]),
         Start(p, r, jobs)
  PROVE  Deed(<<p>>)
<1> DEFINE root == <<p>>
           kids == Messages(p, jobs)
           next == [r EXCEPT !.born = Len(jobs)]
<1>1. /\ Nodes' = {root} \cup kids \cup Kept
      /\ inv'[root] = next
      /\ \A m \in kids : /\ m[2] \in 1..Len(jobs) /\ m = Append(root, m[2])
                         /\ inv'[m] = jobs[m[2]]
      /\ \A m \in Kept : inv'[m] = inv[m]
  BY Started
<1>2. /\ next.fn = "mcp" /\ next.st = "running" /\ next.phase = "begin"
      /\ next.first = 1 /\ next.born = Len(jobs)
  BY DEF Record
<1> HIDE DEF next
<1>3. root[1] = p /\ Len(root) = 1
  OBVIOUS
<1> HIDE DEF root
<1>4. Plain(next) /\ Minds(root, next)
  BY <1>2 DEF Plain, Minds, Minded
<1>5. \A m \in Nodes : Under(m) => m \in Kept
  BY DEF Under, Kept, Over
<1>6. \A m \in kids : Fresh(root, m)
  <2> TAKE m \in kids
  <2> DEFINE i == m[2]
  <2>1. /\ i \in inv'[root].first..inv'[root].born /\ i # 0 /\ m = Append(root, i)
        /\ inv'[m].fn \in Invoked(inv'[root].fn) /\ Plain(inv'[m]) /\ Unborn(inv'[m])
    BY <1>1, <1>2 DEF Invoked
  <2> HIDE DEF i
  <2> QED
    BY <2>1 DEF Fresh
<1>7. root \notin Nodes
  BY DEF root
<1>8. Deed(root)
  BY <1>1, <1>3, <1>4, <1>5, <1>6, <1>7 DEF Deed, Kept
<1> QED
  BY <1>8 DEF root

LEMMA AskedIsTidy ==
  ASSUME NEW kind \in Kinds, NEW job \in Asked(kind)
  PROVE  job.fn \in Kinds /\ Plain(job) /\ Unborn(job)
<1>1. CASE kind = "call"
  <2>1. Asked(kind) = UNION {{Job("call", pin, shown.form) : pin \in {0, shown.ver}} :
                               shown \in known}
    BY <1>1 DEF Asked
  <2>2. PICK shown \in known : job \in {Job("call", pin, shown.form) : pin \in {0, shown.ver}}
    BY <2>1
  <2>3. PICK pin \in {0, shown.ver} : job = Job("call", pin, shown.form)
    BY <2>2
  <2> QED
    BY <2>3, AskedIsPlain DEF Kinds
<1>2. CASE kind = "local"
  <2> DEFINE plain == Job("local", 0, Form[1])
  <2>1. plain.fn = "local" /\ plain.phase = "begin" /\ plain.first = 1 /\ plain.born = 0
    BY DEF Job
  <2>2. job = [plain EXCEPT !.st = "ended", !.status = 200]
    BY <1>2 DEF Asked
  <2>3. job.fn = "local" /\ job.phase = "begin" /\ job.first = 1 /\ job.born = 0
    BY <2>2 DEF Job
  <2> QED
    BY <2>3 DEF Plain, Unborn, Kinds
<1>3. CASE kind \in {"search", "answer"}
  <2>1. job = Job(kind, 0, Form[1])
    BY <1>3 DEF Asked
  <2> QED
    BY <1>3, <2>1, AskedIsPlain DEF Kinds
<1> QED
  BY <1>1, <1>2, <1>3 DEF Kinds

LEMMA PostIsDeed ==
  ASSUME Good, Tidy, script \in Scripts, NEW p \in Posts, Post(p)
  PROVE  p \in Nat /\ Deed(<<p>>)
<1>1. script \in Seq(Seq(Kinds)) /\ p \in DOMAIN script /\ <<p>> \notin Nodes
  BY ScriptAssumption DEF Post, Turn
<1>2. p \in Nat /\ script[p] \in Seq(Kinds)
  BY <1>1
<1> DEFINE post == script[p]
           r    == [Job("mcp", 0, Form[1]) EXCEPT !.st = "running"]
<1>3. PICK jobs \in [DOMAIN post -> UNION {Asked(kind) : kind \in Range(post)}] :
        /\ \A i \in DOMAIN jobs : jobs[i] \in Asked(post[i])
        /\ Start(p, r, jobs)
  BY DEF Post
<1>4. r \in Record /\ r.fn = "mcp" /\ r.st = "running" /\ r.phase = "begin" /\ r.first = 1
  <2>1. r \in Record /\ r.fn = "mcp" /\ r.first = 1
    BY EndpointIsFine DEF Fine
  <2>2. r.st = "running" /\ r.phase = "begin"
    BY DEF Job
  <2> QED
    BY <2>1, <2>2
<1> HIDE DEF post, r
<1>5. DOMAIN post = 1..Len(post) /\ Len(post) \in Nat /\ \A i \in 1..Len(post) : post[i] \in Kinds
  BY <1>2, ElementOfSeq, LenProperties DEF post
<1>6. DOMAIN jobs = 1..Len(post)
  BY <1>3, <1>5
<1>7. Len(jobs) = Len(post)
  BY <1>5, <1>6
<1>8. \A i \in 1..Len(jobs) : jobs[i].fn \in Kinds /\ Plain(jobs[i]) /\ Unborn(jobs[i])
  BY <1>3, <1>5, <1>6, <1>7, AskedIsTidy
<1> QED
  BY <1>1, <1>2, <1>3, <1>4, <1>5, <1>7, <1>8, StartIsDeed

-----------------------------------------------------------------------------
(* The invariant with what is told. *)

Whole == IInv /\ Tidy /\ Telling

LEMMA InitWhole ==
  ASSUME Init
  PROVE  Whole
<1>1. Nodes = {}
  BY DEF Init, Nodes
<1>2. Tidy
  BY <1>1, FS_EmptySet DEF Tidy, Kinship
<1>3. Telling
  <2>1. told = [p \in Posts |-> "nothing"]
    BY DEF Init
  <2> QED
    BY <2>1 DEF Telling, Replies
<1> QED
  BY <1>2, <1>3, InitIInv DEF Whole

LEMMA StillTidy ==
  ASSUME Tidy, UNCHANGED inv
  PROVE  Tidy'
<1>1. Nodes' = Nodes
  BY DEF Nodes
<1> QED
  BY <1>1 DEF Tidy, Kinship, Minds, Under

LEMMA StillTells ==
  ASSUME Telling, UNCHANGED <<inv, told>>
  PROVE  Telling'
BY DEF Telling, Done, Nodes, Group

(* Whatever is told, the lists among it stay true. *)
LEMMA DeedTells ==
  ASSUME Good, Carries, Telling, NEW n, Deed(n), told' \in [Posts -> Replies], Posts \subseteq Nat,
         \A p \in Posts : told'[p] = "list" =>
           Done(p)' \/ (told[p] = "list" /\ (p # n[1] \/ n \in Nodes))
  PROVE  Telling'
<1>1. \A p \in Posts : told'[p] = "list" => Done(p)'
  BY DeedKeepsDone DEF Telling
<1> QED
  BY <1>1 DEF Telling

LEMMA PostsAreNumbers == Posts \subseteq Nat
<1>1. \A s \in Scripts : s \in Seq(Seq(Kinds) \ {<<>>})
  BY ScriptAssumption
<1>2. \A s \in Scripts : DOMAIN s \subseteq Nat
  BY <1>1, LenProperties
<1> QED
  BY <1>2 DEF Posts

(* Every message of a list has come to an end. *)
LEMMA ReplyListTells ==
  ASSUME Good, Carries, Tidy, NEW p \in Nat, <<p>> \in Nodes, ReplyList(p)
  PROVE  Done(p)'
<1> DEFINE n == <<p>>
           r == [inv[n] EXCEPT !.st = "ended", !.status = 200]
<1>1. inv[n] \in Record
  BY Known
<1>2. r.st = "ended" /\ r.first = inv[n].first /\ r.born = inv[n].born
  BY <1>1 DEF Record
<1>3. inv' = [inv EXCEPT ![n] = r]
  BY DEF ReplyList, Answered, Set
<1>4. \A m \in Group(n) : inv[m].st = "ended"
  BY DEF ReplyList, Settled, Casualty
<1> HIDE DEF r
<1>5. n \in Seq(Nat) /\ n # <<>>
  OBVIOUS
<1>6. n \in Nodes
  OBVIOUS
<1> HIDE DEF n
<1>7. inv'[n] = r /\ \A m \in Nodes : m # n => inv'[m] = inv[m]
  BY <1>3, <1>6 DEF Nodes
<1>8. Group(n)' = Group(n)
  BY <1>2, <1>7 DEF Group
<1>9. \A m \in Group(n) : m \in Nodes /\ m # n
  <2> TAKE m \in Group(n)
  <2>1. PICK i \in inv[n].first..inv[n].born : m = Append(n, i)
    BY DEF Group
  <2>2. i \in Nat
    BY <1>6, Typed
  <2> QED
    BY <1>5, <1>6, <2>1, <2>2, ChildOf, Kin DEF Good
<1>10. inv'[n].st = "ended" /\ \A m \in Group(n)' : inv'[m].st = "ended"
  BY <1>2, <1>4, <1>7, <1>8, <1>9
<1> QED
  BY <1>10 DEF Done, n

(* What a step does to what is told. *)
LEMMA StepTells ==
  ASSUME NEW n, Step(n)
  PROVE  \/ UNCHANGED told
         \/ Len(n) = 1 /\ ReplyList(n[1]) /\ told' = [told EXCEPT ![n[1]] = "list"]
         \/ told' = [told EXCEPT ![n[1]] = "error"]
BY DEF Step, ReplyList, ReplyError, Answered, Begin, Wait, Verify, Rank, Resolve, Gate, RunGoesOn,
       DependencyRefuses, RunFails, TableThrows, RunSandbox, AnswerSearches, AnswerReaches, AnswerFails, AnswerEnds,
       Inside, client

LEMMA RootItself ==
  ASSUME NEW n \in Seq(Nat), Len(n) = 1
  PROVE  n[1] \in Nat /\ n = <<n[1]>>
OBVIOUS

LEMMA NextWhole ==
  ASSUME Whole, Next
  PROVE  Whole'
<1>1. /\ Good /\ Right /\ Tidy /\ Telling
      /\ newest \in Versions /\ suspended \in BOOLEAN /\ script \in Scripts
  BY IInvParts DEF Whole
<1>2. IInv'
  BY NextIInv DEF Whole
<1>3. UNCHANGED <<inv, told>> => Whole'
  BY <1>1, <1>2, StillTidy, StillTells DEF Whole
<1>4. told \in [Posts -> Replies]
  BY <1>1 DEF Telling
<1>5. CASE PublishVersion
  BY <1>3, <1>5 DEF PublishVersion, pool, client
<1>6. ASSUME NEW v \in Versions, Approve(v)
      PROVE  Whole'
  BY <1>3, <1>6 DEF Approve, pool, client
<1>7. CASE Suspend
  BY <1>3, <1>7 DEF Suspend, pool, client
<1>8. ASSUME NEW p \in Posts, TurnAway(p)
      PROVE  Whole'
  <2>1. UNCHANGED inv /\ told' = [told EXCEPT ![p] = "refusal"]
    BY <1>8 DEF TurnAway, pool
  <2>2. Telling'
    <3>1. \A q \in Posts : Done(q)' <=> Done(q)
      BY <2>1 DEF Done, Nodes, Group
    <3>2. told' \in [Posts -> Replies]
      BY <1>4, <2>1 DEF Replies
    <3>3. \A q \in Posts : told'[q] = "list" => told[q] = "list"
      BY <1>4, <2>1
    <3> QED
      BY <1>1, <3>1, <3>2, <3>3 DEF Telling
  <2> QED
    BY <1>1, <1>2, <2>1, <2>2, StillTidy DEF Whole
<1>9. ASSUME NEW p \in Posts, Post(p)
      PROVE  Whole'
  <2>1. Carries
    BY <1>1, <1>9, PostCarries
  <2>2. p \in Nat /\ Deed(<<p>>)
    BY <1>1, <1>9, PostIsDeed
  <2>3. UNCHANGED told /\ told[p] = "nothing"
    BY <1>9 DEF Post, Turn, client
  <2> DEFINE n == <<p>>
  <2>4. n[1] = p
    OBVIOUS
  <2> HIDE DEF n
  <2>5. \A q \in Posts : told'[q] = "list" => told[q] = "list" /\ q # n[1]
    BY <2>3, <2>4
  <2>6. Deed(n)
    BY <2>2 DEF n
  <2>7. Tidy'
    BY <1>1, <2>1, <2>6, DeedKeepsTidy
  <2>8. Telling'
    BY <1>1, <1>4, <2>1, <2>3, <2>5, <2>6, PostsAreNumbers, DeedTells
  <2> QED
    BY <1>2, <2>7, <2>8 DEF Whole
<1>10. ASSUME NEW n \in Nodes, Step(n)
       PROVE  Whole'
  <2>1. Carries /\ Deed(n)
    BY <1>1, <1>10, StepCarries, StepIsDeed
  <2>2. Tidy'
    BY <1>1, <2>1, DeedKeepsTidy
  <2>3. /\ told' \in [Posts -> Replies]
        /\ \A q \in Posts : told'[q] = "list" => Done(q)' \/ told[q] = "list"
    <3>1. CASE UNCHANGED told
      BY <1>4, <3>1
    <3>2. CASE Len(n) = 1 /\ ReplyList(n[1]) /\ told' = [told EXCEPT ![n[1]] = "list"]
      <4>1. n \in Seq(Nat)
        BY <1>1, Kin DEF Good
      <4>2. n[1] \in Nat /\ <<n[1]>> \in Nodes
        <5>1. Len(n) = 1 /\ n \in Nodes
          BY <3>2
        <5> QED
          BY <4>1, <5>1, RootItself
      <4>3. Done(n[1])'
        BY <1>1, <2>1, <3>2, <4>2, ReplyListTells
      <4> QED
        BY <1>4, <3>2, <4>3 DEF Replies
    <3>3. CASE told' = [told EXCEPT ![n[1]] = "error"]
      BY <1>4, <3>3 DEF Replies
    <3> QED
      BY <1>10, <3>1, <3>2, <3>3, StepTells
  <2>4. Telling'
    BY <1>1, <2>1, <2>3, PostsAreNumbers, DeedTells
  <2> QED
    BY <1>2, <2>2, <2>4 DEF Whole
<1>11. ASSUME NEW n \in Nodes, LoseReply(n) \/ Die(n)
       PROVE  Whole'
  <2>1. Carries /\ Deed(n)
    BY <1>1, <1>11, LoseReplyCarries, DieCarries, LoseReplyIsDeed, DieIsDeed
  <2>2. Tidy'
    BY <1>1, <2>1, DeedKeepsTidy
  <2>3. UNCHANGED told \/ told' = [told EXCEPT ![n[1]] = "gone"]
    BY <1>11 DEF LoseReply, Die, Inside, client
  <2>4. /\ told' \in [Posts -> Replies]
        /\ \A q \in Posts : told'[q] = "list" => told[q] = "list"
    BY <1>4, <2>3 DEF Replies
  <2>5. Telling'
    BY <1>1, <2>1, <2>4, PostsAreNumbers, DeedTells
  <2> QED
    BY <1>2, <2>2, <2>5 DEF Whole
<1> QED
  BY <1>5, <1>6, <1>7, <1>8, <1>9, <1>10, <1>11 DEF Next

LEMMA WholeInvariant == Spec => []Whole
<1>1. Whole /\ UNCHANGED vars => Whole'
  <2> SUFFICES ASSUME Whole, UNCHANGED vars PROVE Whole'
    OBVIOUS
  <2>1. UNCHANGED <<inv, newest, suspended, script, known, told>>
    BY DEF vars
  <2>2. /\ Good /\ Right /\ Tidy /\ Telling
        /\ newest \in Versions /\ suspended \in BOOLEAN /\ script \in Scripts
    BY IInvParts DEF Whole
  <2>3. IInv'
    BY <2>1, <2>2, Unmoved DEF IInv, Good, Right
  <2> QED
    BY <2>1, <2>2, <2>3, StillTidy, StillTells DEF Whole
<1>2. Whole /\ [Next]_vars => Whole'
  BY <1>1, NextWhole
<1> QED
  BY <1>2, InitWhole, PTL DEF Spec

-----------------------------------------------------------------------------
(* What is told of a message is what happened. *)

(* Only what the endpoint itself starts is of mcp-fn. *)
LEMMA ChildOfSomebody ==
  ASSUME Good, Tidy, NEW n \in Nodes, Len(n) > 1
  PROVE  /\ inv[n].fn # "mcp"
         /\ \E k \in Nodes, i \in Nat : n = Append(k, i) /\ inv[n].fn \in Invoked(inv[k].fn)
<1>1. n \in Seq(Nat)
  BY Kin DEF Good
<1>2. PICK k \in Seq(Nat), i \in Nat : k # <<>> /\ n = Append(k, i)
  BY <1>1, HasParent
<1>3. k \in Nodes
  BY <1>2 DEF Good, Forest, Upward
<1>4. inv[n].fn \in Invoked(inv[k].fn)
  BY <1>2, <1>3 DEF Tidy, Kinship
<1>5. inv[n].fn # "mcp"
  BY <1>4 DEF Invoked, Kinds
<1> QED
  BY <1>2, <1>3, <1>4, <1>5

(* What still runs below a message that has ended well, and was invoked    *)
(* once, is a sandbox.                                                     *)
LEMMA LeftBehind ==
  ASSUME Good, Tidy, NEW n \in Nodes, Len(n) = 2,
         inv[n].st = "ended", inv[n].status = 200, inv[n].tries = 0,
         NEW m \in Below(n) \cap Running
  PROVE  inv[m].fn = "sandbox"
<1>1. /\ m \in Nodes /\ inv[m].st = "running" /\ IsStrictPrefix(n, m)
      /\ n \in Seq(Nat) /\ m \in Seq(Nat)
  BY Kin DEF Below, Running, Good
<1>2. /\ Len(n) =< Len(m) /\ n # m
      /\ SubSeq(n, 1, Len(n)) = SubSeq(m, 1, Len(n))
  BY <1>1 DEF IsStrictPrefix, IsPrefix
<1>3. /\ Len(m) \in Nat
      /\ \A j \in 1..2 : n[j] = m[j]
  <2>1. Len(m) \in Nat
    BY <1>1, LenProperties
  <2>2. n = SubSeq(m, 1, 2)
    BY <1>1, <1>2, SubSeqFull
  <2>3. \A j \in 1..2 : m[j] \in Nat
    BY <1>1, <1>2, <2>1, ElementOfSeq
  <2>4. \A j \in 1..2 : SubSeq(m, 1, 2)[j] = m[j]
    BY <1>1, <1>2, <2>1, <2>3
  <2> QED
    BY <2>1, <2>2, <2>4
<1>4. Len(m) > 2
  <2>1. ASSUME Len(m) = Len(n) PROVE FALSE
    <3>1. \A j \in 1..Len(n) : n[j] = m[j]
      BY <1>3
    <3> QED
      BY <1>1, <1>2, <2>1, <3>1, SeqEqual
  <2>2. Len(n) =< Len(m) /\ Len(m) # Len(n)
    BY <1>2, <2>1, Zenon
  <2>3. Len(n) = 2 /\ Len(m) \in Nat
    BY <1>3
  <2> DEFINE a == Len(n)
             b == Len(m)
  <2>4. a =< b /\ b # a /\ a = 2 /\ b \in Nat
    BY <2>2, <2>3
  <2> HIDE DEF a, b
  <2>5. b > 2
    BY <2>4
  <2> QED
    BY <2>5 DEF b
<1>5. PICK k \in Nodes, i \in Nat : m = Append(k, i) /\ inv[m].fn \in Invoked(inv[k].fn)
  BY <1>1, <1>3, <1>4, ChildOfSomebody
<1>6. /\ k \in Seq(Nat) /\ Len(k) \in Nat /\ Len(m) = Len(k) + 1 /\ Len(k) > 1
      /\ \A j \in 1..Len(k) : m[j] = k[j]
  <2>1. k \in Seq(Nat)
    BY Kin DEF Good
  <2> QED
    BY <1>3, <1>4, <1>5, <2>1, LenProperties, AppendProperties
<1>7. inv[k].fn # "mcp"
  BY <1>6, ChildOfSomebody
<1>8. CASE inv[k].fn = "call"
  BY <1>5, <1>8 DEF Invoked
<1>9. CASE inv[k].fn = "answer"
  <2>1. PICK l \in Nodes, j \in Nat : k = Append(l, j) /\ inv[k].fn \in Invoked(inv[l].fn)
    BY <1>6, ChildOfSomebody
  <2>2. inv[l].fn = "mcp"
    BY <1>9, <2>1 DEF Invoked
  <2>3. l \in Seq(Nat) /\ Len(l) \in Nat /\ Len(k) = Len(l) + 1
    BY <2>1, Kin, LenProperties, ChildOf DEF Good
  <2>4. ~(Len(l) > 1)
    BY <2>2, ChildOfSomebody
  <2>5. Len(k) = 2
    BY <1>6, <2>3, <2>4
  <2>6. k = n
    BY <1>1, <1>3, <1>6, <2>5, SeqEqual
  <2>7. Minded(inv[n]) /\ Under(m)
    BY <1>1, <1>9, <2>6 DEF Minded, Under
  <2>8. i \in inv[n].first..inv[n].born
    BY <1>1, <1>5, <2>6, <2>7 DEF Tidy, Minds
  <2>9. inv[n].first = inv[n].born + 1 /\ inv[n].born \in Nat
    BY <1>9, <2>6, Typed DEF Tidy, Plain
  <2> QED
    BY <2>8, <2>9
<1>10. inv[k].fn \in {"call", "answer"}
  BY <1>5, <1>7 DEF Invoked
<1> QED
  BY <1>8, <1>9, <1>10

(* Every message of a list has ended. *)
LEMMA MessageDone ==
  ASSUME Good, Tidy, Telling, NEW n \in Nodes, Len(n) = 2, told[n[1]] = "list"
  PROVE  inv[n].st = "ended"
<1>1. n \in Seq(Nat) /\ <<n[1]>> \in Nodes /\ n[1] \in Posts
  BY Kin DEF Good, Tidy
<1>2. n[1] \in Nat /\ n[2] \in Nat
  <2>1. 1 \in 1..Len(n) /\ 2 \in 1..Len(n)
    OBVIOUS
  <2> QED
    BY <1>1, <2>1, ElementOfSeq
<1> DEFINE root == <<n[1]>>
           pair == <<n[1], n[2]>>
<1>3. n = pair
  BY <1>1
<1>4. pair = Append(root, n[2])
  BY <1>2, PairOf
<1>5. /\ inv[root].st = "ended"
      /\ \A m \in Group(root) : inv[m].st = "ended"
  BY <1>1, Zenon DEF Telling, Done
<1>6. Len(root) = 1
  OBVIOUS
<1> HIDE DEF root, pair
<1>7. root \in Nodes
  BY <1>1 DEF root
<1>8. inv[root].fn = "mcp"
  BY <1>6, <1>7 DEF Good, AtTheEndpoint
<1>9. inv[root].first = 1 /\ inv[root].born \in Nat
  BY <1>7, <1>8, Typed DEF Tidy, Plain
<1>10. Append(root, n[2]) \in Nodes
  BY <1>3, <1>4
<1>11. n[2] =< inv[root].born /\ n[2] # 0
  BY <1>2, <1>7, <1>10 DEF Good, Forest, Linked, Tidy, Kinship
<1>12. Append(root, n[2]) \in Group(root)
  BY <1>2, <1>9, <1>11 DEF Group
<1> QED
  BY <1>3, <1>4, <1>5, <1>12

(* What the endpoint answers of a message is what happened: the message    *)
(* has come to an end (mcp-fn awaits all of a batch, answer-fn all of a    *)
(* turn); unless a reply was lost, nothing of a success is still under way *)
(* but the sandbox of a call that was killed.  A call that succeeded was   *)
(* recorded as a success, one that is answered 500 as an error, and any    *)
(* other refusal not as a success; none is one more often than asked for.  *)
THEOREM ToldIsWhatHappened == Spec => []ToldWhatHappened
<1>1. Whole => ToldWhatHappened
  <2> SUFFICES ASSUME Whole, NEW n \in Nodes, Message(n), told[n[1]] = "list"
               PROVE  /\ inv[n].st = "ended"
                      /\ inv[n].status = 200 /\ inv[n].tries = 0 =>
                           \A m \in Below(n) \cap Running : inv[m].fn = "sandbox"
                      /\ inv[n].fn = "call" =>
                           /\ inv[n].status = 200 => inv[n].ok > 0
                           /\ inv[n].status = 500 => inv[n].bad > 0
                           /\ inv[n].status \notin {200, 500} /\ inv[n].tries = 0 => inv[n].ok = 0
                           /\ inv[n].ok =< inv[n].tries + 1
    BY DEF ToldWhatHappened
  <2>1. Good /\ Tidy /\ Telling /\ Len(n) = 2
    BY IInvParts DEF Whole, Message
  <2>2. inv[n].st = "ended"
    BY <2>1, MessageDone
  <2>3. Plain(inv[n]) /\ inv[n].ok \in Nat /\ inv[n].tries \in Nat
    BY <2>1, Known
  <2>4. inv[n].fn = "call" =>
          /\ inv[n].status = 200 => inv[n].ok > 0
          /\ inv[n].status = 500 => inv[n].bad > 0
          /\ inv[n].status \notin {200, 500} /\ inv[n].tries = 0 => inv[n].ok = 0
          /\ inv[n].ok =< inv[n].tries + 1
    BY <2>2, <2>3 DEF Plain, Told
  <2> QED
    BY <2>1, <2>2, <2>4, LeftBehind
<1> QED
  BY <1>1, WholeInvariant, PTL

-----------------------------------------------------------------------------
(* Nobody is throttled as long as there is a place for everybody. *)

(* The sandbox under way of a call under way. *)
LEMMA OwnSandbox ==
  ASSUME Good, Tidy, NEW m \in Nodes, Under(m), inv[m].fn = "sandbox",
         Front(m) \in Nodes, inv[Front(m)].fn = "call"
  PROVE  m = Append(Front(m), inv[Front(m)].born)
<1>1. m \in Seq(Nat) /\ m # <<>> /\ Len(m) \in Nat
  BY Kin, LenProperties DEF Good
<1>2. Len(m) # 1
  BY DEF Good, AtTheEndpoint
<1>3. Len(m) > 1
  <2>1. Len(m) \in Nat \ {0}
    BY <1>1, EmptySeq
  <2> DEFINE a == Len(m)
  <2>2. a \in Nat \ {0} /\ a # 1
    BY <1>2, <2>1, Zenon
  <2> HIDE DEF a
  <2>3. a > 1
    BY <2>2
  <2> QED
    BY <2>3 DEF a
<1>4. PICK k \in Seq(Nat), i \in Nat : k # <<>> /\ m = Append(k, i)
  BY <1>1, <1>3, HasParent
<1>5. Front(m) = k
  BY <1>4, FrontOf
<1>6. i = inv[k].born
  BY <1>4, <1>5, OneSandbox
<1> QED
  BY <1>4, <1>5, <1>6

LEMMA PlacesWhenFull ==
  ASSUME Good, Tidy, NEW n \in Nodes, inv[n].st = "asked", ~Room
  PROVE  Places > Ceiling
<1> DEFINE under == {m \in Nodes : inv[m].st \in {"asked", "running"}}
           calls == {m \in under : inv[m].fn = "call"}
           own   == {m \in under : inv[m].fn = "sandbox" /\ Front(m) \in calls}
           front == [m \in own |-> Front(m)]
<1>1. IsFiniteSet(under)
  BY FS_Subset DEF Tidy
<1>2. IsFiniteSet(calls) /\ IsFiniteSet(own) /\ IsFiniteSet(Running) /\ own \subseteq under
  <2>1. calls \subseteq under /\ own \subseteq under /\ Running \subseteq under
    BY DEF Running
  <2> QED
    BY <1>1, <2>1, FS_Subset
<1>3. front \in Injection(own, calls)
  <2>1. front \in [own -> calls]
    OBVIOUS
  <2>2. ASSUME NEW a \in own, NEW b \in own, Front(a) = Front(b) PROVE a = b
    <3>1. /\ a \in Nodes /\ Under(a) /\ inv[a].fn = "sandbox"
          /\ b \in Nodes /\ Under(b) /\ inv[b].fn = "sandbox"
          /\ Front(a) \in Nodes /\ inv[Front(a)].fn = "call"
      BY DEF Under
    <3> QED
      BY <2>2, <3>1, OwnSandbox
  <2>3. \A a, b \in DOMAIN front : front[a] = front[b] => a = b
    BY <2>2
  <2> HIDE DEF front
  <2>4. IsInjective(front)
    BY <2>3 DEF IsInjective
  <2> QED
    BY <2>1, <2>4 DEF Injection
<1> HIDE DEF front
<1>4. Cardinality(own) =< Cardinality(calls)
  BY <1>2, <1>3, FS_Injection
<1>5. Cardinality(under \ own) = Cardinality(under) - Cardinality(own)
  <2>1. under \cap own = own
    BY <1>2
  <2>2. Cardinality(under \ own) = Cardinality(under) - Cardinality(under \cap own)
    BY <1>1, FS_Difference
  <2> QED
    BY <2>1, <2>2
<1>6. Cardinality(Running) < Cardinality(under)
  <2>1. Running \subseteq under /\ n \in under /\ n \notin Running
    BY DEF Running
  <2>2. Running # under
    BY <2>1
  <2>3. Cardinality(Running) =< Cardinality(under) /\ Cardinality(Running) # Cardinality(under)
    BY <1>1, <2>1, <2>2, FS_Subset
  <2>4. Cardinality(Running) \in Nat /\ Cardinality(under) \in Nat
    BY <1>1, <1>2, FS_CardinalityType
  <2> QED
    BY <2>3, <2>4
<1>7. /\ Cardinality(own) \in Nat /\ Cardinality(calls) \in Nat /\ Cardinality(under) \in Nat
      /\ Cardinality(Running) \in Nat
  BY <1>1, <1>2, FS_CardinalityType
<1>8. Places = Cardinality(under \ own) + Cardinality(calls)
  BY DEF Places
<1>9. Ceiling =< Cardinality(Running)
  BY <1>7, CeilingAssumption DEF Room
<1> HIDE DEF under, calls, own
<1> QED
  BY <1>4, <1>5, <1>6, <1>7, <1>8, <1>9, CeilingAssumption

(* Who asks for a place and gets none was told so by TooManyRequests, and  *)
(* by nothing else.                                                        *)
LEMMA OnlyThrottled ==
  ASSUME Whole, Next, NEW n \in Nodes, n \in Nodes', inv[n].st = "asked",
         inv'[n] # inv[n], inv'[n].st # "running"
  PROVE  ~Room
<1>1. /\ Good /\ Right /\ Tidy /\ Telling
      /\ newest \in Versions /\ suspended \in BOOLEAN /\ script \in Scripts
  BY IInvParts DEF Whole
<1>2. ~(UNCHANGED inv)
  OBVIOUS
<1>3. \A m : Deed(m) => m = n
  BY DEF Deed, Under
<1>4. CASE PublishVersion \/ (\E v \in Versions : Approve(v)) \/ Suspend
  BY <1>2, <1>4 DEF PublishVersion, Approve, Suspend, pool
<1>5. ASSUME NEW p \in Posts, TurnAway(p) PROVE ~Room
  BY <1>2, <1>5 DEF TurnAway, pool
<1>6. ASSUME NEW p \in Posts, Post(p) PROVE ~Room
  <2>1. Deed(<<p>>)
    BY <1>1, <1>6, PostIsDeed
  <2>2. <<p>> \notin Nodes
    BY <1>6 DEF Post, Turn
  <2> QED
    BY <1>3, <2>1, <2>2
<1>7. ASSUME NEW m \in Nodes, Step(m) PROVE ~Room
  <2>1. m = n
    BY <1>1, <1>3, <1>7, StepIsDeed
  <2>2. Begin(n) \/ Wait(n)
    <3>1. inv[n].st # "running"
      OBVIOUS
    <3>2. Len(n) = 1 => ~ReplyList(n[1]) /\ ~ReplyError(n[1])
      <4> SUFFICES ASSUME Len(n) = 1, ReplyList(n[1]) \/ ReplyError(n[1]) PROVE FALSE
        OBVIOUS
      <4>1. n \in Seq(Nat)
        BY <1>1, Kin DEF Good
      <4>2. n = <<n[1]>>
        BY <4>1, RootItself
      <4>3. inv[<<n[1]>>].st = "running"
        BY DEF ReplyList, ReplyError, Answered
      <4> QED
        BY <3>1, <4>2, <4>3
    <3> QED
      BY <1>7, <2>1, <3>1, <3>2
      DEF Step, Verify, Rank, Resolve, Gate, DependencyRefuses, RunGoesOn, RunFails, TableThrows, RunSandbox,
          AnswerSearches, AnswerReaches, AnswerFails, AnswerEnds, At
  <2>3. ~Begin(n)
    <3> SUFFICES ASSUME Begin(n) PROVE FALSE
      OBVIOUS
    <3>1. inv' = [inv EXCEPT ![n] = [inv[n] EXCEPT !.st = "running", !.late = suspended]]
      BY DEF Begin, Admit, Set
    <3>2. inv[n] \in Record
      BY <1>1, Known
    <3>3. inv'[n] = [inv[n] EXCEPT !.st = "running", !.late = suspended]
      BY <3>1 DEF Nodes
    <3> QED
      BY <3>2, <3>3 DEF Record
  <2> QED
    BY <2>2, <2>3 DEF Wait, Throttle
<1>8. ASSUME NEW m \in Nodes, LoseReply(m) \/ Die(m) PROVE ~Room
  <2>1. m = n
    BY <1>1, <1>3, <1>8, LoseReplyIsDeed, DieIsDeed
  <2> QED
    BY <1>8, <2>1 DEF LoseReply, Lose, Die, Kill
<1> QED
  BY <1>4, <1>5, <1>6, <1>7, <1>8 DEF Next

(* As long as two places for each call and one for each other invocation   *)
(* are within the ceiling, nobody is throttled: exec-fn never has more     *)
(* than one fetcher or runtime under way ("slower and predictable beats    *)
(* faster and occasionally deadlocked").                                   *)
THEOREM ThrottledWhenFull == Spec => ThrottledOnlyWhenFull
<1> DEFINE A == \A n \in Nodes :
                  /\ n \in DOMAIN inv' /\ inv[n].st = "asked"
                  /\ inv'[n] # inv[n] /\ inv'[n].st # "running"
                  => Places > Ceiling
<1>1. Whole /\ [Next]_vars => [A]_vars
  <2> SUFFICES ASSUME Whole, Next PROVE A
    OBVIOUS
  <2>1. Good /\ Tidy
    BY IInvParts DEF Whole
  <2> SUFFICES ASSUME NEW n \in Nodes, n \in DOMAIN inv', inv[n].st = "asked",
                      inv'[n] # inv[n], inv'[n].st # "running"
               PROVE  Places > Ceiling
    OBVIOUS
  <2>2. n \in Nodes'
    BY DEF Nodes
  <2>3. ~Room
    BY <2>2, OnlyThrottled
  <2> QED
    BY <2>1, <2>3, PlacesWhenFull
<1> QED
  BY <1>1, WholeInvariant, PTL DEF Spec, ThrottledOnlyWhenFull
=============================================================================
