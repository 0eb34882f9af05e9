-------------------------------- MODULE Board --------------------------------
(***************************************************************************)
(* What is published of a night: the files that cluster-fn writes one      *)
(* after the other, the edges that serve copies of them, and stasis, the   *)
(* paid hold on the stage of a tool, which operators write into a file     *)
(* that the nightly run reads.                                             *)
(*                                                                         *)
(* Every attempt of the nightly run has a number, which stands for what it *)
(* computed; of the scores only the stage of each tool is kept.  A file    *)
(* that was never written has number 0.  Left out are sim-gaps.json and    *)
(* audit.json, which nobody is served: to die there is to die before the   *)
(* next step.  A PutObject that throws though it was applied is one that   *)
(* was applied, followed by the death of the run.                          *)
(***************************************************************************)
EXTENDS Naturals, FiniteSets, FiniteSetsExt

CONSTANTS
  Tools,
  Operators,  \* who sells and releases holds
  Edges,      \* caches of the distribution
  Attempts,   \* how often the service runs a failed event in all
  MaxRuns,    \* bound: attempts ever made
  MaxSales,   \* bound: invocations of the CLI
  Faults      \* "death" of a run, "unread": its read of stasis.json fails,
              \* "misread": that of the CLI does, "unpublished"

ASSUME BoundsAssumption ==
  Attempts \in Nat \ {0} /\ MaxRuns \in Nat /\ MaxSales \in Nat
ASSUME FaultsAssumption == Faults \subseteq {"death", "unread", "misread", "unpublished"}

Dark   == 0
Star   == 2
Stages == Dark .. Star

Empty == [t \in Tools |-> [active |-> FALSE, frozen |-> Dark]]

VARIABLES
  usage,     \* the stage each tool would earn now
  gaps,      \* gaps.json: the run that wrote it
  tools,     \* tools.json: that, and the stage it gives each tool
  world,     \* world.json: that, with the stage earned and the stage shown
  stasis,    \* stasis.json
  run,       \* the number of the last attempt
  tries,     \* how many attempts the event of this night has had
  pc,        \* where the run is
  mass,      \* its scores
  held,      \* the holds it has read
  copies,    \* per edge and file, the run whose file it serves, 0 for none
  purging,   \* the copies an invalidation has still to reach
  announced, \* the last run that was invalidated
  op,        \* per operator: what is sold, and what was read for it
  sales,     \* how often the CLI was started
  sold,      \* history: the stage each tool is held at, as its buyer was told
  standing,  \* history: the tools whose holds have not changed since the run began
  reached    \* history: the best stage tools.json has given each tool

files    == <<gaps, tools, world>>
job      == <<run, tries, pc, mass, held>>
edges    == <<copies, purging, announced>>
shop     == <<stasis, op, sales, sold>>
vars     == <<usage, files, job, edges, shop, standing, reached>>

(* The files that the pages read, always both.  world.json is served as    *)
(* well, but no page reads it.                                             *)
Public == {"gaps", "tools"}

NoOp    == [at |-> "idle"]
NoStage == [t \in Tools |-> Dark]

Init ==
  /\ usage \in [Tools -> Stages]
  /\ gaps = 0
  /\ tools = [run |-> 0, stage |-> NoStage]
  /\ world = [run |-> 0, earned |-> NoStage, shown |-> NoStage]
  /\ stasis = Empty
  /\ run = 0 /\ tries = 0 /\ pc = "idle" /\ mass = NoStage /\ held = Empty
  /\ copies = [e \in Edges |-> [f \in Public |-> 0]]
  /\ purging = {} /\ announced = 0
  /\ op = [o \in Operators |-> NoOp] /\ sales = 0
  /\ sold = NoStage /\ standing = {} /\ reached = NoStage

(* A tool is called, or is not for a while. *)
Drift(t) ==
  /\ \E stage \in Stages : usage' = [usage EXCEPT ![t] = stage]
  /\ UNCHANGED <<files, job, edges, shop, standing, reached>>

-----------------------------------------------------------------------------
(* The nightly run. *)

Restart(n) ==
  /\ run < MaxRuns
  /\ run' = run + 1
  /\ tries' = n
  /\ pc' = "gaps"
  /\ mass' = NoStage /\ held' = Empty
  /\ standing' = Tools
  /\ UNCHANGED <<usage, files, edges, shop, reached>>

Begin == pc = "idle" /\ Restart(1)

PutGaps ==
  /\ pc = "gaps"
  /\ gaps' = run
  /\ pc' = "mass"
  /\ UNCHANGED <<usage, tools, world, run, tries, mass, held, edges, shop, standing, reached>>

ComputeMass ==
  /\ pc = "mass"
  /\ mass' = usage
  /\ pc' = "stasis"
  /\ UNCHANGED <<usage, files, run, tries, held, edges, shop, standing, reached>>

(* mutant: that the file is not there is an error *)
LoadStasis_Throws ==
  /\ pc = "stasis"
  /\ stasis # Empty
  /\ held' = stasis
  /\ pc' = "world"
  /\ UNCHANGED <<usage, files, run, tries, mass, edges, shop, standing, reached>>

(* Whatever goes wrong with the file, it is taken to be empty. *)
LoadStasis ==
  /\ pc = "stasis"
  /\ \/ held' = stasis /\ UNCHANGED standing
     \/ "unread" \in Faults /\ held' = Empty /\ standing' = {}
  /\ pc' = "world"
  /\ UNCHANGED <<usage, files, run, tries, mass, edges, shop, reached>>

(* mutant: the hold is a ceiling as well *)
WorldStage_Frozen(earned, hold) == IF hold.active THEN hold.frozen ELSE earned

(* A hold is a floor, never a ceiling. *)
WorldStage(earned, hold) ==
  IF hold.active THEN Max({earned, hold.frozen}) ELSE earned

PutWorld ==
  /\ pc = "world"
  /\ world' = [run |-> run, earned |-> mass,
               shown |-> [t \in Tools |-> WorldStage(mass[t], held[t])]]
  /\ pc' = "tools"
  /\ UNCHANGED <<usage, gaps, tools, run, tries, mass, held, edges, shop, standing, reached>>

PutTools ==
  /\ pc = "tools"
  /\ tools' = [run |-> run, stage |-> mass]
  /\ reached' = [t \in Tools |-> Max({reached[t], mass[t]})]
  /\ pc' = "publish"
  /\ UNCHANGED <<usage, gaps, world, run, tries, mass, held, edges, shop, standing>>

(* mutant: gaps.json is forgotten *)
Invalidated_One == {"tools"}

(* The files that an invalidation names. *)
Invalidated == {"tools", "gaps"}

Publish ==
  /\ pc = "publish"
  /\ purging' = purging \cup (Edges \X Invalidated)
  /\ announced' = run
  /\ pc' = "idle"
  /\ UNCHANGED <<usage, files, run, tries, mass, held, copies, shop, standing, reached>>

(* Not fatal: the board is written, and seen when the edges let go of the  *)
(* old one.                                                                *)
PublishFails ==
  /\ "unpublished" \in Faults
  /\ pc = "publish"
  /\ pc' = "idle"
  /\ UNCHANGED <<usage, files, run, tries, mass, held, edges, shop, standing, reached>>

(* The run throws or is killed.  The service starts it again, from the     *)
(* beginning; of so many attempts the last one lives.                      *)
Die ==
  /\ "death" \in Faults
  /\ pc # "idle"
  /\ tries < Attempts
  /\ Restart(tries + 1)

-----------------------------------------------------------------------------
(* The edges. *)

FileRun(f) == IF f = "gaps" THEN gaps ELSE tools.run

(* Somebody asks for a file that the edge has no copy of. *)
Fetch(e, f) ==
  /\ copies[e][f] = 0
  /\ FileRun(f) # 0
  /\ copies' = [copies EXCEPT ![e][f] = FileRun(f)]
  /\ UNCHANGED <<usage, files, job, purging, announced, shop, standing, reached>>

(* It lets go of a copy, because of its age or at will. *)
Drop(e, f) ==
  /\ copies[e][f] # 0
  /\ copies' = [copies EXCEPT ![e][f] = 0]
  /\ UNCHANGED <<usage, files, job, purging, announced, shop, standing, reached>>

(* An invalidation reaches it. *)
Purge(e, f) ==
  /\ <<e, f>> \in purging
  /\ purging' = purging \ {<<e, f>>}
  /\ copies' = [copies EXCEPT ![e][f] = 0]
  /\ UNCHANGED <<usage, files, job, announced, shop, standing, reached>>

-----------------------------------------------------------------------------
(* cli/stasis.mjs: the file is read, changed and written back whole. *)

(* Whatever goes wrong with the file, it is taken to be empty. *)
Load(o, t) ==
  /\ op[o].at = "idle"
  /\ sales < MaxSales
  /\ sales' = sales + 1
  /\ \E doc \in {stasis} \cup (IF "misread" \in Faults THEN {Empty} ELSE {}),
        to \in {"on", "off"} :
       op' = [op EXCEPT ![o] = [at |-> to, tool |-> t, doc |-> doc]]
  /\ UNCHANGED <<usage, files, job, edges, stasis, sold, standing, reached>>

(* The command ends with nothing changed. *)
Quit(o) ==
  /\ op' = [op EXCEPT ![o] = NoOp]
  /\ UNCHANGED <<usage, files, job, edges, stasis, sales, sold, standing, reached>>

(* mutant: any stage can be named *)
Sellable_Any(t) == Stages \ {Dark}

(* The stages of a tool that can be held: those up to the one it has, as   *)
(* tools.json gives it, but for darkness.                                  *)
Sellable(t) == IF tools.run = 0 THEN {} ELSE (Dark + 1) .. tools.stage[t]

Refuse(o) ==
  /\ \/ op[o].at = "on" /\ Sellable(op[o].tool) = {}
     \/ op[o].at = "off" /\ ~ op[o].doc[op[o].tool].active
  /\ Quit(o)

ReadStage(o) ==
  /\ op[o].at = "on"
  /\ \E stage \in Sellable(op[o].tool) :
       op' = [op EXCEPT ![o] = [at |-> "save", tool |-> @.tool,
                doc |-> [@.doc EXCEPT ![op[o].tool] = [active |-> TRUE, frozen |-> stage]]]]
  /\ UNCHANGED <<usage, files, job, edges, stasis, sales, sold, standing, reached>>

Released(o) == [op[o].doc EXCEPT ![op[o].tool].active = FALSE]

(* The document is written back, and the operator told what is held of it. *)
Save(o, doc, told) ==
  /\ stasis' = doc
  /\ sold' = [sold EXCEPT ![op[o].tool] = told]
  /\ standing' = standing \ {op[o].tool}
  /\ op' = [op EXCEPT ![o] = NoOp]
  /\ UNCHANGED <<usage, files, job, edges, sales, reached>>

TurnOn(o) ==
  op[o].at = "save" /\ Save(o, op[o].doc, op[o].doc[op[o].tool].frozen)

TurnOff(o) ==
  op[o].at = "off" /\ op[o].doc[op[o].tool].active /\ Save(o, Released(o), Dark)

-----------------------------------------------------------------------------
Step == PutGaps \/ ComputeMass \/ LoadStasis \/ PutWorld \/ PutTools \/ Publish \/ PublishFails

Next ==
  \/ Begin \/ Step \/ Die
  \/ \E t \in Tools : Drift(t)
  \/ \E e \in Edges, f \in Public : Fetch(e, f) \/ Drop(e, f) \/ Purge(e, f)
  \/ \E o \in Operators :
       \/ \E t \in Tools : Load(o, t)
       \/ Refuse(o) \/ ReadStage(o) \/ TurnOn(o) \/ TurnOff(o)

Spec == Init /\ [][Next]_vars

(* The service starts the run again after a death, a run goes on, and      *)
(* invalidations arrive; nobody has to sell, ask or start a night.         *)
FairSpec ==
  /\ Spec
  /\ WF_vars(Step)
  /\ \A e \in Edges, f \in Public : WF_vars(Purge(e, f))

-----------------------------------------------------------------------------
(* Money keeps a stage and never grants one: what the world shows above    *)
(* what was earned, tools.json gave that tool at some time, whatever it    *)
(* earns when it is sold, when the run reads the file, or afterwards.      *)
NeverGranted ==
  \A t \in Tools : world.shown[t] > world.earned[t] => world.shown[t] <= reached[t]

(* A run shows what was bought and nothing else: a tool whose hold was sold *)
(* or released before the run began, and not touched since, is shown at    *)
(* least at the stage held, and at what it earned when nothing is held.    *)
(* Excepted are nights on which the file could not be read, which takes    *)
(* everybody's hold off for the night.                                     *)
WorldHonoursSales ==
  [][world' # world =>
       \A t \in standing : world'.shown[t] = Max({mass[t], sold[t]})]_vars

(* Once the files of a run have been invalidated, no edge goes on serving  *)
(* the demand or the scores of an earlier one: publishing is being seen.   *)
PublishedIsSeen ==
  \A n \in 1 .. MaxRuns :
    announced = n ~>
      [](\A e \in Edges, f \in Public :
           copies[e][f] # 0 => copies[e][f] >= n)

(* A night that has begun is published, though attempts die, and though    *)
(* nobody has ever bought a hold and there is no file to read.             *)
NightIsWritten ==
  \A n \in 1 .. MaxRuns : run = n ~> gaps >= n /\ world.run >= n /\ tools.run >= n
=============================================================================
