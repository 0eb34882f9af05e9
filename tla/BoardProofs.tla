----------------------------- MODULE BoardProofs -----------------------------
(***************************************************************************)
(* Money keeps a stage and never grants one, for any tools, operators and  *)
(* edges, however often the nightly run dies and the files are misread;    *)
(* and what one operator sells is what the world shows.                    *)
(***************************************************************************)
EXTENDS Board, TLAPS

Docs == [Tools -> [active : BOOLEAN, frozen : Stages]]

Types ==
  /\ usage \in [Tools -> Stages] /\ mass \in [Tools -> Stages]
  /\ reached \in [Tools -> Stages] /\ tools.stage \in [Tools -> Stages]
  /\ world.earned \in [Tools -> Stages] /\ world.shown \in [Tools -> Stages]
  /\ DOMAIN op = Operators

(* No hold of this document is above what its tool has reached. *)
Earned(doc) == doc \in Docs /\ \A t \in Tools : doc[t].active => doc[t].frozen =< reached[t]

(* The document may be the file, the copy of it that the run has read, or  *)
(* the one that an operator is about to write back, however old.           *)
Holds ==
  /\ Earned(stasis) /\ Earned(held)
  /\ \A o \in Operators : op[o].at # "idle" => op[o].tool \in Tools /\ Earned(op[o].doc)

Reaches == \A t \in Tools : tools.stage[t] =< reached[t]

IInv == Types /\ Holds /\ Reaches /\ NeverGranted

LEMMA MaxOfTwo ==
  ASSUME NEW a \in Nat, NEW b \in Nat
  PROVE  Max({a, b}) \in {a, b} /\ a =< Max({a, b}) /\ b =< Max({a, b})
<1>1. \E x \in {a, b} : \A y \in {a, b} : x >= y
  OBVIOUS
<1>2. Max({a, b}) \in {a, b} /\ \A y \in {a, b} : Max({a, b}) >= y
  BY <1>1 DEF Max
<1> QED
  BY <1>2

LEMMA EmptyIsEarned == Earned(Empty)
<1>1. Empty \in Docs
  BY DEF Empty, Docs, Stages, Dark, Star
<1>2. \A t \in Tools : ~Empty[t].active
  BY DEF Empty
<1> QED
  BY <1>1, <1>2 DEF Earned

-----------------------------------------------------------------------------
(* A step that neither reads nor writes a hold or a file. *)
LEMMA Elsewhere ==
  ASSUME IInv, UNCHANGED <<tools, world, stasis, held, op, reached>>,
         usage' \in [Tools -> Stages], mass' \in [Tools -> Stages]
  PROVE  IInv'
BY DEF IInv, Types, Holds, Reaches, Earned, NeverGranted

LEMMA InitIInv ==
  ASSUME Init
  PROVE  IInv
<1>1. NoStage \in [Tools -> Stages]
  BY DEF NoStage, Stages, Dark, Star
<1>2. Types
  BY <1>1 DEF Init, Types
<1>3. stasis = Empty /\ held = Empty /\ \A o \in Operators : op[o].at = "idle"
  BY DEF Init, NoOp
<1>4. Holds
  BY <1>3, EmptyIsEarned DEF Holds
<1>5. Reaches
  BY <1>1 DEF Init, Reaches, Stages, Dark, Star
<1>6. NeverGranted
  BY <1>1 DEF Init, NeverGranted, Stages, Dark, Star
<1> QED
  BY <1>2, <1>4, <1>5, <1>6 DEF IInv

LEMMA RestartStep ==
  ASSUME IInv, NEW n, Restart(n)
  PROVE  IInv'
<1>1. mass' = NoStage /\ held' = Empty /\ UNCHANGED <<usage, tools, world, stasis, op, reached>>
  BY DEF Restart, files, shop
<1>2. NoStage \in [Tools -> Stages]
  BY DEF NoStage, Stages, Dark, Star
<1>3. Earned(Empty)'
  BY <1>1, EmptyIsEarned DEF Earned
<1> QED
  BY <1>1, <1>2, <1>3 DEF IInv, Types, Holds, Reaches, Earned, NeverGranted

LEMMA LoadStasisStep ==
  ASSUME IInv, LoadStasis
  PROVE  IInv'
<1>1. held' \in {stasis, Empty} /\ UNCHANGED <<usage, mass, tools, world, stasis, op, reached>>
  BY DEF LoadStasis, files, shop
<1>2. Earned(held')
  BY <1>1, EmptyIsEarned DEF IInv, Holds
<1> QED
  BY <1>1, <1>2 DEF IInv, Types, Holds, Reaches, Earned, NeverGranted

(* What is shown above what is earned is a hold, and no hold is too high.  *)
LEMMA PutWorldStep ==
  ASSUME IInv, PutWorld
  PROVE  IInv'
<1>1. /\ world'.earned = mass /\ world'.shown = [t \in Tools |-> WorldStage(mass[t], held[t])]
      /\ UNCHANGED <<usage, tools, mass, held, stasis, op, reached>>
  BY DEF PutWorld, shop
<1>2. ASSUME NEW t \in Tools
      PROVE  /\ WorldStage(mass[t], held[t]) \in Stages
             /\ WorldStage(mass[t], held[t]) > mass[t] => WorldStage(mass[t], held[t]) =< reached[t]
  <2>1. mass[t] \in Stages /\ held[t].frozen \in Stages
    BY DEF IInv, Types, Holds, Earned, Docs
  <2>2. \A stage \in Stages : stage \in Nat
    BY DEF Stages, Dark, Star
  <2>3. CASE held[t].active
    <3>1. /\ WorldStage(mass[t], held[t]) = Max({mass[t], held[t].frozen})
          /\ held[t].frozen =< reached[t]
      BY <2>3 DEF IInv, Holds, Earned, WorldStage
    <3>2. Max({mass[t], held[t].frozen}) \in {mass[t], held[t].frozen}
      BY <2>1, <2>2, MaxOfTwo
    <3> QED
      BY <2>1, <2>2, <3>1, <3>2
  <2>4. CASE ~held[t].active
    BY <2>1, <2>2, <2>4 DEF WorldStage
  <2> QED
    BY <2>3, <2>4
<1>3. NeverGranted'
  BY <1>1, <1>2 DEF NeverGranted
<1>4. Types'
  BY <1>1, <1>2 DEF IInv, Types
<1> QED
  BY <1>1, <1>3, <1>4 DEF IInv, Holds, Reaches, Earned

LEMMA PutToolsStep ==
  ASSUME IInv, PutTools
  PROVE  IInv'
<1>1. /\ tools'.stage = mass /\ reached' = [t \in Tools |-> Max({reached[t], mass[t]})]
      /\ UNCHANGED <<usage, world, mass, held, stasis, op>>
  BY DEF PutTools, shop
<1>2. ASSUME NEW t \in Tools
      PROVE  reached'[t] \in Stages /\ reached[t] =< reached'[t] /\ mass[t] =< reached'[t]
  <2>1. reached[t] \in Stages /\ mass[t] \in Stages /\ Stages \subseteq Nat
    BY DEF IInv, Types, Stages, Dark, Star
  <2>2. reached'[t] = Max({reached[t], mass[t]})
    BY <1>1
  <2> QED
    BY <2>1, <2>2, MaxOfTwo
<1>3. reached' \in [Tools -> Stages]
  BY <1>1, <1>2
<1>4. ASSUME NEW doc, Earned(doc) PROVE Earned(doc)'
  <2>1. \A t \in Tools : doc[t].frozen \in Stages /\ reached[t] \in Stages
    BY <1>4 DEF Earned, Docs, IInv, Types
  <2> QED
    BY <1>2, <1>4, <2>1 DEF Earned, Stages, Dark, Star
<1>5. Types' /\ Holds'
  BY <1>1, <1>3, <1>4 DEF IInv, Types, Holds
<1>6. Reaches'
  BY <1>1, <1>2 DEF Reaches
<1>7. NeverGranted'
  <2>1. \A t \in Tools : world.shown[t] \in Stages /\ reached[t] \in Stages
    BY DEF IInv, Types
  <2> QED
    BY <1>1, <1>2, <2>1 DEF IInv, NeverGranted, Stages, Dark, Star
<1> QED
  BY <1>5, <1>6, <1>7 DEF IInv

-----------------------------------------------------------------------------
(* The steps of an operator. *)

(* One operator changes what is being sold, and nobody else's. *)
LEMMA SellsOn ==
  ASSUME IInv, NEW o \in Operators, NEW r,
         r.at # "idle" => r.tool \in Tools /\ Earned(r.doc),
         op' = [op EXCEPT ![o] = r], NEW doc, stasis' = doc, Earned(doc),
         UNCHANGED <<usage, tools, world, mass, held, reached>>
  PROVE  IInv'
<1>1. DOMAIN op' = Operators /\ op'[o] = r /\ \A p \in Operators : p # o => op'[p] = op[p]
  BY DEF IInv, Types
<1>2. \A d : Earned(d) => Earned(d)'
  BY DEF Earned
<1>3. Holds'
  BY <1>1, <1>2 DEF IInv, Holds
<1>4. Types' /\ Reaches' /\ NeverGranted'
  BY <1>1 DEF IInv, Types, Reaches, NeverGranted
<1> QED
  BY <1>3, <1>4 DEF IInv

LEMMA LoadStep ==
  ASSUME IInv, NEW o \in Operators, NEW t \in Tools, Load(o, t)
  PROVE  IInv'
<1>1. PICK doc \in {stasis, Empty} : \E to \in {"on", "off"} :
        op' = [op EXCEPT ![o] = [at |-> to, tool |-> t, doc |-> doc]]
  BY DEF Load
<1>2. PICK to \in {"on", "off"} : op' = [op EXCEPT ![o] = [at |-> to, tool |-> t, doc |-> doc]]
  BY <1>1
<1>3. Earned(doc) /\ Earned(stasis)
  BY <1>1, EmptyIsEarned DEF IInv, Holds
<1>4. UNCHANGED <<usage, tools, world, mass, held, stasis, reached>>
  BY DEF Load, files, job
<1> DEFINE r == [at |-> to, tool |-> t, doc |-> doc]
<1>5. r.tool \in Tools /\ Earned(r.doc)
  BY <1>3
<1> HIDE DEF r
<1>6. op' = [op EXCEPT ![o] = r]
  BY <1>2 DEF r
<1> QED
  BY <1>3, <1>4, <1>5, <1>6, SellsOn

LEMMA RefuseStep ==
  ASSUME IInv, NEW o \in Operators, Refuse(o)
  PROVE  IInv'
<1>1. /\ op' = [op EXCEPT ![o] = NoOp]
      /\ UNCHANGED <<usage, tools, world, mass, held, stasis, reached>>
  BY DEF Refuse, Quit, files, job
<1>2. NoOp.at = "idle"
  BY DEF NoOp
<1>3. Earned(stasis)
  BY DEF IInv, Holds
<1> HIDE DEF NoOp
<1> QED
  BY <1>1, <1>2, <1>3, SellsOn

(* A stage that can be sold was given by tools.json.                       *)
LEMMA ReadStageStep ==
  ASSUME IInv, NEW o \in Operators, ReadStage(o)
  PROVE  IInv'
<1> DEFINE t == op[o].tool
           old == op[o].doc
<1>1. t \in Tools /\ Earned(old) /\ Earned(stasis)
  BY DEF IInv, Holds, ReadStage
<1>2. PICK stage \in Sellable(t) :
        op' = [op EXCEPT ![o] = [at |-> "save", tool |-> op[o].tool,
                 doc |-> [op[o].doc EXCEPT ![op[o].tool] = [active |-> TRUE, frozen |-> stage]]]]
  BY DEF ReadStage
<1>3. stage \in Stages /\ stage =< reached[t]
  <2>1. tools.stage[t] \in Stages /\ tools.stage[t] =< reached[t] /\ reached[t] \in Stages
    BY <1>1 DEF IInv, Types, Reaches
  <2>2. stage \in (Dark + 1) .. tools.stage[t]
    BY <1>2 DEF Sellable
  <2> QED
    BY <2>1, <2>2 DEF Stages, Dark, Star
<1> DEFINE new == [old EXCEPT ![t] = [active |-> TRUE, frozen |-> stage]]
           r   == [at |-> "save", tool |-> t, doc |-> new]
<1>4. Earned(new)
  <2>1. new \in Docs
    BY <1>1, <1>3 DEF Earned, Docs
  <2>2. \A x \in Tools : new[x].active => new[x].frozen =< reached[x]
    BY <1>1, <1>3 DEF Earned, Docs
  <2> QED
    BY <2>1, <2>2 DEF Earned
<1>5. r.tool \in Tools /\ Earned(r.doc)
  BY <1>1, <1>4
<1>6. op' = [op EXCEPT ![o] = r]
  BY <1>2
<1>7. UNCHANGED <<usage, tools, world, mass, held, stasis, reached>>
  BY DEF ReadStage, files, job
<1> HIDE DEF r
<1> QED
  BY <1>1, <1>5, <1>6, <1>7, SellsOn

LEMMA SaveStep ==
  ASSUME IInv, NEW o \in Operators, NEW doc, NEW told, Earned(doc), Save(o, doc, told)
  PROVE  IInv'
<1>1. /\ op' = [op EXCEPT ![o] = NoOp] /\ stasis' = doc
      /\ UNCHANGED <<usage, tools, world, mass, held, reached>>
  BY DEF Save, files, job
<1>2. NoOp.at = "idle"
  BY DEF NoOp
<1> HIDE DEF NoOp
<1> QED
  BY <1>1, <1>2, SellsOn

LEMMA TurnOnStep ==
  ASSUME IInv, NEW o \in Operators, TurnOn(o)
  PROVE  IInv'
<1>1. Earned(op[o].doc)
  BY DEF IInv, Holds, TurnOn
<1> QED
  BY <1>1, SaveStep DEF TurnOn

LEMMA TurnOffStep ==
  ASSUME IInv, NEW o \in Operators, TurnOff(o)
  PROVE  IInv'
<1>1. Earned(op[o].doc) /\ op[o].tool \in Tools
  BY DEF IInv, Holds, TurnOff
<1>2. Earned(Released(o))
  <2>1. Released(o) \in Docs
    BY <1>1 DEF Released, Earned, Docs
  <2>2. \A x \in Tools : Released(o)[x].active => Released(o)[x].frozen =< reached[x]
    BY <1>1 DEF Released, Earned, Docs
  <2> QED
    BY <2>1, <2>2 DEF Earned
<1> QED
  BY <1>2, SaveStep DEF TurnOff

-----------------------------------------------------------------------------
LEMMA RunStep ==
  ASSUME IInv, Step
  PROVE  IInv'
<1>1. CASE PutGaps \/ Publish \/ PublishFails
  BY <1>1, Elsewhere DEF PutGaps, Publish, PublishFails, shop, files, IInv, Types
<1>2. CASE ComputeMass
  BY <1>2, Elsewhere DEF ComputeMass, shop, files, IInv, Types
<1> QED
  BY <1>1, <1>2, LoadStasisStep, PutWorldStep, PutToolsStep DEF Step

LEMMA DriftStep ==
  ASSUME IInv, NEW t \in Tools, Drift(t)
  PROVE  IInv'
<1>1. usage' \in [Tools -> Stages]
  BY DEF Drift, IInv, Types
<1> QED
  BY <1>1, Elsewhere DEF Drift, shop, files, job, IInv, Types

LEMMA EdgeStep ==
  ASSUME IInv, NEW e \in Edges, NEW f \in Public, Fetch(e, f) \/ Drop(e, f) \/ Purge(e, f)
  PROVE  IInv'
BY Elsewhere DEF Fetch, Drop, Purge, shop, files, job, IInv, Types

LEMMA NextIInv ==
  ASSUME IInv, [Next]_vars
  PROVE  IInv'
<1>1. CASE Begin \/ Die
  BY <1>1, RestartStep DEF Begin, Die
<1>2. CASE UNCHANGED vars
  BY <1>2, Elsewhere DEF vars, shop, files, job, IInv, Types
<1> QED
  BY <1>1, <1>2, RunStep, DriftStep, EdgeStep, LoadStep, RefuseStep, ReadStageStep, TurnOnStep, TurnOffStep
  DEF Next

(* What the world shows of a tool above what it earned, it has been given  *)
(* by tools.json: turnOn() of stasis.mjs sells no stage above the one that *)
(* file says, and no copy of the document, however old, holds a higher one *)
(* by the time worldStage() reads it.                                      *)
THEOREM MoneyNeverGrants == Spec => []NeverGranted
<1>1. IInv => NeverGranted
  BY DEF IInv
<1> QED
  BY <1>1, InitIInv, NextIInv, PTL DEF Spec

-----------------------------------------------------------------------------
(* What is sold is shown, when one operator sells and the file he reads is *)
(* the one that is there.  What the document holds of a tool: *)
HeldAs(doc, t) == IF doc[t].active THEN doc[t].frozen ELSE Dark

OneSeller == (\A o, p \in Operators : o = p) /\ "misread" \notin Faults

(* The file holds what the buyers were told, the copy at work differs from *)
(* it in the tool at work only, and the nightly run has read of the tools  *)
(* nobody has touched what their buyers were told.                         *)
Sold == sold \in [Tools -> Stages] /\ standing \subseteq Tools

ToldTrue == \A t \in Tools : sold[t] = HeldAs(stasis, t)

CopyFresh ==
  \A o \in Operators :
    /\ op[o].at \in {"on", "off"} => op[o].doc = stasis
    /\ op[o].at = "save" =>
         /\ op[o].doc[op[o].tool].active
         /\ \A t \in Tools \ {op[o].tool} : op[o].doc[t] = stasis[t]

ReadTrue == pc = "world" => \A t \in standing : HeldAs(held, t) = sold[t]

Honest == Sold /\ ToldTrue /\ CopyFresh /\ ReadTrue

LEMMA InitHonest ==
  ASSUME Init
  PROVE  Honest
<1>1. Sold
  BY DEF Init, Sold, NoStage, Stages, Dark, Star
<1>2. ToldTrue
  BY DEF Init, ToldTrue, HeldAs, Empty, NoStage
<1>3. CopyFresh
  BY DEF Init, CopyFresh, NoOp
<1>4. ReadTrue
  BY DEF Init, ReadTrue
<1> QED
  BY <1>1, <1>2, <1>3, <1>4 DEF Honest

(* A step that sells nothing. *)
LEMMA NothingSold ==
  ASSUME Honest, UNCHANGED shop, standing' \in SUBSET Tools,
         pc' = "world" => \A t \in standing' : HeldAs(held', t) = sold[t]
  PROVE  Honest'
<1>1. UNCHANGED <<stasis, op, sold>>
  BY DEF shop
<1> QED
  BY <1>1 DEF Honest, Sold, ToldTrue, CopyFresh, ReadTrue, HeldAs

LEMMA LoadStasisHonest ==
  ASSUME IInv, Honest, LoadStasis
  PROVE  Honest'
<1>1. UNCHANGED shop
  BY DEF LoadStasis
<1>2. CASE held' = stasis /\ UNCHANGED standing
  BY <1>1, <1>2, NothingSold DEF Honest, Sold, ToldTrue
<1>3. CASE standing' = {}
  BY <1>1, <1>3, NothingSold
<1> QED
  BY <1>2, <1>3 DEF LoadStasis

LEMMA RunHonest ==
  ASSUME IInv, Honest, Step \/ Begin \/ Die
  PROVE  Honest'
<1>1. CASE LoadStasis
  BY <1>1, LoadStasisHonest
<1>2. CASE PutGaps \/ ComputeMass \/ PutWorld \/ PutTools \/ Publish \/ PublishFails
  <2>1. UNCHANGED shop /\ standing' = standing /\ pc' # "world"
    BY <1>2 DEF PutGaps, ComputeMass, PutWorld, PutTools, Publish, PublishFails
  <2> QED
    BY <2>1, NothingSold DEF Honest, Sold
<1>3. ASSUME NEW n, Restart(n) PROVE Honest'
  <2>1. UNCHANGED shop /\ standing' = Tools /\ pc' = "gaps"
    BY <1>3 DEF Restart
  <2> QED
    BY <2>1, NothingSold
<1>4. CASE Begin \/ Die
  BY <1>3, <1>4, Zenon DEF Begin, Die
<1> QED
  BY <1>1, <1>2, <1>4 DEF Step

LEMMA EdgeHonest ==
  ASSUME Honest, UNCHANGED <<shop, standing, pc, held>>
  PROVE  Honest'
BY NothingSold DEF Honest, Sold, ReadTrue

(* The operator reads, and sells nothing yet. *)
LEMMA ReadingHonest ==
  ASSUME IInv, OneSeller, Honest, NEW o \in Operators, NEW r, op' = [op EXCEPT ![o] = r],
         r.at \in {"on", "off"} => r.doc = stasis,
         r.at = "save" => /\ r.doc[r.tool].active
                          /\ \A t \in Tools \ {r.tool} : r.doc[t] = stasis[t],
         UNCHANGED <<stasis, sold, standing, pc, held>>
  PROVE  Honest'
<1>1. op'[o] = r
  BY DEF IInv, Types
<1>2. CopyFresh'
  BY <1>1 DEF CopyFresh, OneSeller
<1> QED
  BY <1>2 DEF Honest, Sold, ToldTrue, ReadTrue, HeldAs

LEMMA LoadHonest ==
  ASSUME IInv, OneSeller, Honest, NEW o \in Operators, NEW t \in Tools, Load(o, t)
  PROVE  Honest'
<1>1. \E to \in {"on", "off"} : op' = [op EXCEPT ![o] = [at |-> to, tool |-> t, doc |-> stasis]]
  BY DEF Load, OneSeller
<1>2. PICK to \in {"on", "off"} : op' = [op EXCEPT ![o] = [at |-> to, tool |-> t, doc |-> stasis]]
  BY <1>1
<1>3. UNCHANGED <<stasis, sold, standing, pc, held>>
  BY DEF Load, job
<1> DEFINE r == [at |-> to, tool |-> t, doc |-> stasis]
<1>4. r.at # "save" /\ r.doc = stasis
  OBVIOUS
<1>5. op' = [op EXCEPT ![o] = r]
  BY <1>2
<1> HIDE DEF r
<1> QED
  BY <1>3, <1>4, <1>5, ReadingHonest

LEMMA RefuseHonest ==
  ASSUME IInv, OneSeller, Honest, NEW o \in Operators, Refuse(o)
  PROVE  Honest'
<1>1. op' = [op EXCEPT ![o] = NoOp] /\ UNCHANGED <<stasis, sold, standing, pc, held>>
  BY DEF Refuse, Quit, job
<1>2. NoOp.at = "idle"
  BY DEF NoOp
<1> HIDE DEF NoOp
<1> QED
  BY <1>1, <1>2, ReadingHonest

LEMMA ReadStageHonest ==
  ASSUME IInv, OneSeller, Honest, NEW o \in Operators, ReadStage(o)
  PROVE  Honest'
<1> DEFINE t == op[o].tool
<1>1. op[o].at = "on" /\ t \in Tools /\ stasis \in Docs /\ op[o].doc = stasis
  BY DEF ReadStage, IInv, Holds, Earned, Honest, CopyFresh
<1>2. PICK stage \in Sellable(t) :
        op' = [op EXCEPT ![o] = [at |-> "save", tool |-> op[o].tool,
                 doc |-> [op[o].doc EXCEPT ![op[o].tool] = [active |-> TRUE, frozen |-> stage]]]]
  BY DEF ReadStage
<1> DEFINE new == [stasis EXCEPT ![t] = [active |-> TRUE, frozen |-> stage]]
           r   == [at |-> "save", tool |-> t, doc |-> new]
<1>3. new[t].active /\ \A x \in Tools \ {t} : new[x] = stasis[x]
  BY <1>1 DEF Docs
<1>4. op' = [op EXCEPT ![o] = r]
  BY <1>1, <1>2
<1>5. UNCHANGED <<stasis, sold, standing, pc, held>>
  BY DEF ReadStage, job
<1>6. r.at = "save" /\ r.tool = t /\ r.doc = new
  OBVIOUS
<1> HIDE DEF r, new, t
<1> QED
  BY <1>3, <1>4, <1>5, <1>6, ReadingHonest

(* What is written back tells the buyer of the tool the truth, and leaves  *)
(* everybody else's hold alone.                                            *)
LEMMA SaveHonest ==
  ASSUME IInv, OneSeller, Honest, NEW o \in Operators, op[o].tool \in Tools,
         NEW doc \in Docs, Save(o, doc, HeldAs(doc, op[o].tool)),
         \A t \in Tools \ {op[o].tool} : doc[t] = stasis[t]
  PROVE  Honest'
<1>1. /\ stasis' = doc /\ op' = [op EXCEPT ![o] = NoOp]
      /\ sold' = [sold EXCEPT ![op[o].tool] = HeldAs(doc, op[o].tool)]
      /\ standing' = standing \ {op[o].tool}
      /\ UNCHANGED <<pc, held>>
  BY DEF Save, job
<1>2. HeldAs(doc, op[o].tool) \in Stages
  BY DEF HeldAs, Docs, Stages, Dark, Star
<1>3. Sold'
  BY <1>1, <1>2 DEF Honest, Sold
<1>4. ToldTrue'
  BY <1>1 DEF Honest, Sold, ToldTrue, HeldAs
<1>5. CopyFresh'
  <2>1. op'[o].at = "idle"
    BY <1>1 DEF IInv, Types, NoOp
  <2> QED
    BY <2>1 DEF CopyFresh, OneSeller
<1>6. ReadTrue'
  BY <1>1 DEF Honest, Sold, ReadTrue, HeldAs
<1> QED
  BY <1>3, <1>4, <1>5, <1>6 DEF Honest

LEMMA TurnOnHonest ==
  ASSUME IInv, OneSeller, Honest, NEW o \in Operators, TurnOn(o)
  PROVE  Honest'
<1>1. op[o].at = "save" /\ op[o].tool \in Tools /\ op[o].doc \in Docs
  BY DEF TurnOn, IInv, Holds, Earned
<1>2. op[o].doc[op[o].tool].active /\ \A t \in Tools \ {op[o].tool} : op[o].doc[t] = stasis[t]
  BY <1>1 DEF Honest, CopyFresh
<1>3. HeldAs(op[o].doc, op[o].tool) = op[o].doc[op[o].tool].frozen
  BY <1>2 DEF HeldAs
<1> QED
  BY <1>1, <1>2, <1>3, SaveHonest DEF TurnOn

LEMMA TurnOffHonest ==
  ASSUME IInv, OneSeller, Honest, NEW o \in Operators, TurnOff(o)
  PROVE  Honest'
<1>1. op[o].at = "off" /\ op[o].tool \in Tools /\ op[o].doc = stasis /\ stasis \in Docs
  BY DEF TurnOff, IInv, Holds, Earned, Honest, CopyFresh
<1>2. /\ Released(o) \in Docs /\ ~Released(o)[op[o].tool].active
      /\ \A t \in Tools \ {op[o].tool} : Released(o)[t] = stasis[t]
  BY <1>1 DEF Released, Docs
<1>3. HeldAs(Released(o), op[o].tool) = Dark
  BY <1>2 DEF HeldAs
<1> QED
  BY <1>1, <1>2, <1>3, SaveHonest DEF TurnOff

LEMMA NextHonest ==
  ASSUME IInv, OneSeller, Honest, [Next]_vars
  PROVE  Honest'
<1>1. CASE \E t \in Tools : Drift(t)
  BY <1>1, EdgeHonest DEF Drift, job
<1>2. CASE \E e \in Edges, f \in Public : Fetch(e, f) \/ Drop(e, f) \/ Purge(e, f)
  BY <1>2, EdgeHonest DEF Fetch, Drop, Purge, job
<1>3. CASE UNCHANGED vars
  BY <1>3, EdgeHonest DEF vars, job
<1> QED
  BY <1>1, <1>2, <1>3, RunHonest, LoadHonest, RefuseHonest, ReadStageHonest, TurnOnHonest, TurnOffHonest
  DEF Next

LEMMA WorldIsWrittenOnce ==
  ASSUME [Next]_vars, world' # world
  PROVE  PutWorld
BY DEF Next, Step, Begin, Die, Restart, PutGaps, ComputeMass, LoadStasis, PutTools, Publish,
       PublishFails, Drift, Fetch, Drop, Purge, Load, Refuse, Quit, ReadStage, TurnOn, TurnOff,
       Save, vars, files

(* What is on sale is what is shown: a tool whose hold was sold or         *)
(* released before the run began, and not touched since, is shown at the   *)
(* stage its buyer was told or above, and at what it earned when nothing   *)
(* is held, as long as one operator sells and reads the file that is       *)
(* there.  stasis.mjs writes the whole document back, so that two of them  *)
(* undo each other.                                                        *)
THEOREM SalesAreHonoured ==
  OneSeller => (Spec => WorldHonoursSales)
<1> SUFFICES ASSUME OneSeller PROVE Spec => WorldHonoursSales
  OBVIOUS
<1>1. ASSUME IInv, Honest, PutWorld, NEW t \in standing
      PROVE  world'.shown[t] = Max({mass[t], sold[t]})
  <2>1. t \in Tools /\ HeldAs(held, t) = sold[t]
    BY <1>1 DEF PutWorld, Honest, Sold, ReadTrue
  <2>2. world'.shown[t] = WorldStage(mass[t], held[t])
    BY <1>1, <2>1 DEF PutWorld
  <2>3. mass[t] \in Stages /\ Stages \subseteq Nat /\ \A n \in Nat : n >= 0
    BY <1>1, <2>1 DEF IInv, Types, Stages, Dark, Star
  <2>4. mass[t] \in Nat /\ Dark \in Nat /\ Dark =< mass[t]
    BY <2>3 DEF Dark
  <2>5. Max({mass[t], Dark}) = mass[t]
    <3>1. /\ Max({mass[t], Dark}) \in {mass[t], Dark}
          /\ mass[t] =< Max({mass[t], Dark})
      BY <2>4, MaxOfTwo
    <3> QED
      BY <2>4, <3>1
  <2> QED
    BY <2>1, <2>2, <2>5 DEF WorldStage, HeldAs
<1>2. IInv /\ Honest /\ [Next]_vars =>
        [world' # world => \A t \in standing : world'.shown[t] = Max({mass[t], sold[t]})]_vars
  BY <1>1, WorldIsWrittenOnce
<1> QED
  BY <1>2, InitIInv, NextIInv, InitHonest, NextHonest, PTL DEF Spec, WorldHonoursSales
=============================================================================
