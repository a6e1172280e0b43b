------------------------- MODULE CommandQueueProofs -------------------------
(***************************************************************************)
(* Proof that the command files implement CommandDelivery, for any number  *)
(* of writers and commands.  The state of a command is read off its file   *)
(* and off what the node holds of it, so the invariant says which of these *)
(* can be at once.                                                         *)
(***************************************************************************)
EXTENDS CommandQueue, TLAPS

\* A file that is being written is torn and has one writer.
Written ==
    \A w \in Writer : \A c \in writing[w] :
        /\ files[c] = "torn"
        /\ c < next
        /\ \A d \in writing[w] : d = c
        /\ \A v \in Writer : c \in writing[v] => v = w

\* A command was queued before anything else happens to it, the node holds it
\* only after its file is gone, and carries it out only after it held it.
Placed ==
    \A c \in Command :
        /\ c >= next => files[c] = "absent" /\ c \notin drained /\ executed[c] = 0
        /\ c \in drained => files[c] = "absent" /\ executed[c] = 0
        /\ executed[c] > 0 => files[c] = "absent"

\* A node holds commands only while it drains.
Holding == node # "draining" => listed = {} /\ drained = {}

QueueInv == QueueTypeOK /\ Written /\ Placed /\ Holding

\* The initial state satisfies the invariant.
LEMMA QueueInvInit == QueueInit => QueueInv
  BY QueueAssumption
  DEF QueueInit, QueueInv, QueueTypeOK, Written, Placed, Holding, Command

\* What a writer does keeps the invariant.
LEMMA QueueInvWriter ==
    ASSUME QueueInv, NEW w \in Writer,
           CreateCommand(w) \/ WriteCommand(w) \/ AbandonCommand(w)
    PROVE  QueueInv'
<1> USE QueueAssumption DEF Command
<1>1. CASE CreateCommand(w)
  <2>1. QueueTypeOK'
    BY <1>1 DEF QueueInv, QueueTypeOK, CreateCommand
  <2>2. Written'
    <3>1. \A v \in Writer : next \notin writing[v]
      BY DEF QueueInv, Written, QueueTypeOK
    <3>2. QED
      BY <1>1, <3>1 DEF QueueInv, QueueTypeOK, Written, CreateCommand
  <2>3. Placed'
    BY <1>1 DEF QueueInv, QueueTypeOK, Placed, CreateCommand
  <2>4. QED
    BY <1>1, <2>1, <2>2, <2>3 DEF QueueInv, Holding, CreateCommand
<1>2. CASE WriteCommand(w)
  <2>1. QueueTypeOK'
    BY <1>2 DEF QueueInv, QueueTypeOK, WriteCommand
  <2>2. Written'
    BY <1>2 DEF QueueInv, QueueTypeOK, Written, WriteCommand
  <2>3. Placed'
    BY <1>2 DEF QueueInv, QueueTypeOK, Written, Placed, WriteCommand
  <2>4. QED
    BY <1>2, <2>1, <2>2, <2>3 DEF QueueInv, Holding, WriteCommand
<1>3. CASE AbandonCommand(w)
  BY <1>3 DEF QueueInv, QueueTypeOK, Written, Placed, Holding, AbandonCommand
<1>4. QED
  BY <1>1, <1>2, <1>3

\* What the node does keeps the invariant.
LEMMA QueueInvNode ==
    ASSUME QueueInv,
           \/ StartNode \/ ListCommands \/ ProcessCommands \/ Crash
           \/ \E c \in Command : DrainCommand(c) \/ DrainError(c)
    PROVE  QueueInv'
<1> USE QueueAssumption DEF Command
<1>1. CASE StartNode \/ ListCommands
  <2>1. QueueTypeOK'
    BY <1>1 DEF QueueInv, QueueTypeOK, StartNode, ListCommands
  <2>2. Written' /\ Placed'
    BY <1>1 DEF QueueInv, Written, Placed, StartNode, ListCommands
  <2>3. Holding'
    BY <1>1 DEF QueueInv, Holding, StartNode, ListCommands
  <2>4. QED
    BY <2>1, <2>2, <2>3 DEF QueueInv
<1>2. CASE ProcessCommands
  <2>1. executed' \in [Command -> Nat]
    BY <1>2 DEF QueueInv, QueueTypeOK, ProcessCommands
  <2>2. Placed'
    BY <1>2 DEF QueueInv, QueueTypeOK, Placed, ProcessCommands
  <2>3. QED
    BY <1>2, <2>1, <2>2 DEF QueueInv, QueueTypeOK, Written, Holding, ProcessCommands
<1>3. ASSUME NEW c \in Command, DrainCommand(c) PROVE QueueInv'
  <2>1. Written'
    BY <1>3 DEF QueueInv, QueueTypeOK, Written, DrainCommand
  <2>2. Placed'
    BY <1>3 DEF QueueInv, QueueTypeOK, Placed, DrainCommand
  <2>3. QED
    BY <1>3, <2>1, <2>2 DEF QueueInv, QueueTypeOK, Holding, DrainCommand
<1>4. CASE Crash \/ \E c \in Command : DrainError(c)
  <2>1. StopNode /\ files' = files
    BY <1>4 DEF Crash, DrainError
  <2>2. QueueTypeOK' /\ Holding'
    BY <2>1 DEF QueueInv, QueueTypeOK, Holding, StopNode
  <2>3. Written' /\ Placed'
    BY <2>1 DEF QueueInv, QueueTypeOK, Written, Placed, StopNode
  <2>4. QED
    BY <2>2, <2>3 DEF QueueInv
<1>5. QED
  BY <1>1, <1>2, <1>3, <1>4

\* Every step keeps the invariant.
LEMMA QueueInvStep == QueueInv /\ [QueueNext]_queueVars => QueueInv'
<1> SUFFICES ASSUME QueueInv, [QueueNext]_queueVars PROVE QueueInv'
  OBVIOUS
<1>1. CASE QueueNext
  BY <1>1, QueueInvWriter, QueueInvNode DEF QueueNext
<1>2. CASE UNCHANGED queueVars
  BY <1>2 DEF queueVars, QueueInv, QueueTypeOK, Written, Placed, Holding
<1>3. QED
  BY <1>1, <1>2

-----------------------------------------------------------------------------
(* The refinement.                                                         *)

\* At first every command is new.
LEMMA DeliveryInit == QueueInit => Delivered!DeliveryInit
  BY QueueAssumption
  DEF QueueInit, Delivered!DeliveryInit, StateOf, Command

\* The steps of a writer: none is seen before the command is reported, which
\* queues it.
LEMMA WriterRefines ==
    ASSUME QueueInv, NEW w \in Writer,
           CreateCommand(w) \/ WriteCommand(w) \/ AbandonCommand(w)
    PROVE  [Delivered!DeliveryNext]_(Delivered!deliveryVars)
<1> USE QueueAssumption DEF Command
<1>1. CASE CreateCommand(w)
  <2>1. \A c \in Command : StateOf(c)' = StateOf(c)
    BY <1>1 DEF QueueInv, QueueTypeOK, Placed, StateOf, CreateCommand
  <2>2. QED
    BY <1>1, <2>1 DEF Delivered!deliveryVars, CreateCommand
<1>2. CASE WriteCommand(w)
  <2>1. PICK c \in Command : c \in writing[w] /\ writing[w] = {c}
    BY <1>2 DEF QueueInv, QueueTypeOK, Written, WriteCommand
  <2>2. StateOf(c) = "new" /\ StateOf(c)' = "queued"
    BY <1>2, <2>1 DEF QueueInv, QueueTypeOK, Written, Placed, StateOf, WriteCommand
  <2>3. \A d \in Command \ {c} : StateOf(d)' = StateOf(d)
    BY <1>2, <2>1 DEF QueueInv, QueueTypeOK, StateOf, WriteCommand
  <2>4. Delivered!Queue(c)
    BY <1>2, <2>2, <2>3 DEF Delivered!Queue, WriteCommand
  <2>5. QED
    BY <2>4 DEF Delivered!DeliveryNext
<1>3. CASE AbandonCommand(w)
  BY <1>3 DEF Delivered!deliveryVars, StateOf, AbandonCommand
<1>4. QED
  BY <1>1, <1>2, <1>3

\* A node that stops loses what it holds, and nothing else.
LEMMA StopRefines ==
    ASSUME QueueInv, node # "off", StopNode, files' = files
    PROVE  Delivered!DeliveryNext
<1> USE QueueAssumption DEF Command
<1>1. \A c \in drained : StateOf(c) = "queued" /\ StateOf(c)' = "lost"
  BY DEF QueueInv, QueueTypeOK, Placed, StateOf, StopNode
<1>2. \A c \in Command \ drained : StateOf(c)' = StateOf(c)
  BY DEF QueueInv, QueueTypeOK, StateOf, StopNode
<1>3. drained \in SUBSET Delivered!Queued
  BY <1>1 DEF QueueInv, QueueTypeOK, Delivered!Queued
<1>4. Delivered!Stop(drained)
  BY <1>1, <1>2 DEF Delivered!Stop, StopNode
<1>5. QED
  BY <1>3, <1>4 DEF Delivered!DeliveryNext

\* Carrying out what was drained is the step in which those commands run.
LEMMA ProcessRefines ==
    ASSUME QueueInv, ProcessCommands
    PROVE  Delivered!DeliveryNext
<1> USE QueueAssumption DEF Command
<1>1. \A c \in drained : StateOf(c) = "queued" /\ StateOf(c)' = "done"
  BY DEF QueueInv, QueueTypeOK, Placed, StateOf, ProcessCommands
<1>2. \A c \in Command \ drained : StateOf(c)' = StateOf(c)
  BY DEF QueueInv, QueueTypeOK, StateOf, ProcessCommands
<1>3. drained \in SUBSET Delivered!Queued
  BY <1>1 DEF QueueInv, QueueTypeOK, Delivered!Queued
<1>4. Delivered!Run(drained)
  BY <1>1, <1>2 DEF Delivered!Run, ProcessCommands
<1>5. QED
  BY <1>3, <1>4 DEF Delivered!DeliveryNext

\* Every step maps to a step of CommandDelivery or to none.
LEMMA DeliveryStep ==
    QueueInv /\ [QueueNext]_queueVars => [Delivered!DeliveryNext]_(Delivered!deliveryVars)
<1> SUFFICES ASSUME QueueInv, [QueueNext]_queueVars
             PROVE  [Delivered!DeliveryNext]_(Delivered!deliveryVars)
  OBVIOUS
<1> USE QueueAssumption DEF Command
<1>1. CASE UNCHANGED queueVars
  BY <1>1 DEF queueVars, Delivered!deliveryVars, StateOf
<1>2. ASSUME NEW w \in Writer, CreateCommand(w) \/ WriteCommand(w) \/ AbandonCommand(w)
      PROVE  [Delivered!DeliveryNext]_(Delivered!deliveryVars)
  BY <1>2, WriterRefines
<1>3. CASE StartNode
  <2>1. \A c \in Command : StateOf(c)' = StateOf(c)
    BY <1>3 DEF StateOf, StartNode
  <2>2. Delivered!Start
    BY <1>3, <2>1 DEF Delivered!Start, StartNode
  <2>3. QED
    BY <2>2 DEF Delivered!DeliveryNext
<1>4. CASE ListCommands
  BY <1>4 DEF Delivered!deliveryVars, StateOf, ListCommands
<1>5. ASSUME NEW c \in Command, DrainCommand(c)
      PROVE  [Delivered!DeliveryNext]_(Delivered!deliveryVars)
  <2>1. \A d \in Command : StateOf(d)' = StateOf(d)
    BY <1>5 DEF QueueInv, QueueTypeOK, StateOf, DrainCommand
  <2>2. QED
    BY <1>5, <2>1 DEF Delivered!deliveryVars, DrainCommand
<1>6. CASE Crash \/ \E c \in Command : DrainError(c)
  BY <1>6, StopRefines DEF Crash, DrainError
<1>7. CASE ProcessCommands
  BY <1>7, ProcessRefines
<1>8. QED
  BY <1>1, <1>2, <1>3, <1>4, <1>5, <1>6, <1>7 DEF QueueNext

\* The command files implement CommandDelivery: a reported command is carried
\* out at most once and lost only in a step that stops the node.
THEOREM QueueImplementsDelivery == QueueSpec => ImplementsDelivery
  BY QueueInvInit, QueueInvStep, DeliveryInit, DeliveryStep, PTL
  DEF QueueSpec, ImplementsDelivery, Delivered!Delivery

=============================================================================
