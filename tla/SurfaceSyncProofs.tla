------------------------- MODULE SurfaceSyncProofs -------------------------
(***************************************************************************)
(* Proofs about the mounted surface: type correctness, that the screen is  *)
(* what the record says, and that the processes around the command files   *)
(* keep to the queue, so that they implement CommandDelivery.              *)
(***************************************************************************)
EXTENDS SurfaceSync, CommandQueueProofs, SequenceTheorems

-----------------------------------------------------------------------------
(* The command queue.                                                      *)

\* Whatever a process does is a step of the queue or leaves it alone.
LEMMA StepOfQueue == [Next]_vars => [QueueNext]_queueVars
<1> SUFFICES ASSUME [Next]_vars PROVE QueueNext \/ UNCHANGED queueVars
  OBVIOUS
<1>1. CASE UNCHANGED vars
  BY <1>1 DEF vars
<1>2. CASE NodeStep
  BY <1>2 DEF NodeStep, handle_chat_command_tick, OpenFile, WriteFile, QueueNext
<1>3. CASE NodeStarts \/ NodeCrashes
  BY <1>3 DEF NodeStarts, NodeCrashes, QueueNext
<1>4. CASE \E changed \in SUBSET File, from \in {1, Topology} : HandleEvent(changed, from)
  BY <1>4 DEF HandleEvent
<1>5. CASE TerminalStep
  BY <1>5, SurfaceAssumption
  DEF TerminalStep, synchronize_surface, ReadDocument, build_chat_bindings, PressQueued,
      LoadTopology, OpenTopology, SaveTopology, QueueNext
<1>6. CASE Open \/ Refresh \/ PressRefused \/ PressQueues
  BY <1>6, SurfaceAssumption DEF Open, Refresh, PressRefused, PressQueues, QueueNext
<1>7. CASE \/ \E value \in Value : SetInput(value)
           \/ \E d \in Document : EditDocument(d)
  BY <1>7 DEF SetInput, EditDocument
<1>8. CASE \E w \in Writer : OtherCommand(w)
  BY <1>8 DEF OtherCommand, QueueNext
<1>9. QED
  BY <1>1, <1>2, <1>3, <1>4, <1>5, <1>6, <1>7, <1>8 DEF Next

\* With a surface, a node that persists and writers around it, the command files
\* still implement CommandDelivery.
THEOREM SurfaceImplementsDelivery == Spec => ImplementsDelivery
<1>1. Init => QueueInit
  BY DEF Init
<1>2. QED
  BY <1>1, StepOfQueue, QueueImplementsDelivery, PTL DEF Spec, QueueSpec

-----------------------------------------------------------------------------
(* Type correctness.                                                       *)

\* The queue's part of TypeOK, kept by whatever the processes do.
LEMMA QueueTypes == Spec => []QueueTypeOK
<1>1. Init => QueueInv
  BY QueueInvInit DEF Init
<1>2. QueueInv => QueueTypeOK
  BY DEF QueueInv
<1>3. QED
  BY <1>1, <1>2, StepOfQueue, QueueInvStep, PTL DEF Spec

\* The node's side of the types.
NodeTypes ==
    /\ store \in [File -> SUBSET Nat]
    /\ held \in Content
    /\ persisting \in SUBSET [file : File, open : BOOLEAN]

\* The terminal's.
TerminalTypes ==
    /\ document \in Document
    /\ pc \in {"off", "prompt", "resolving", "pressing", "told", "loaded", "saving"}
    /\ render \in [input : Value, force : BOOLEAN]
    /\ frame \in Frame /\ Len(frame.files) <= ChatFiles
    /\ ui \in RuntimeUiSurfaceState
    /\ typed \in Value
    /\ screen \in TerminalRenderedSurface
    /\ copy \subseteq Nat

CounterTypes == changes \in Nat /\ edits \in Nat /\ keys \in Nat /\ starts \in Nat

Types == NodeTypes /\ TerminalTypes /\ CounterTypes

\* The initial state is well typed.
LEMMA TypesInit == Init => Types
<1> SUFFICES ASSUME Init PROVE Types
  OBVIOUS
<1>1. NodeTypes
  BY SurfaceAssumption DEF Init, NodeTypes, Content, File
<1>2. TerminalTypes
  BY SurfaceAssumption
  DEF Init, TerminalTypes, EmptyFrame, Frame, NoSurface, NoScreen, RuntimeUiSurfaceState,
      TerminalRenderedSurface
<1>3. QED
  BY <1>1, <1>2 DEF Init, Types, CounterTypes

\* A node's step keeps the types.
LEMMA TypesNode ==
    ASSUME Types,
           \/ NodeStep \/ NodeStarts \/ NodeCrashes
           \/ \E changed \in SUBSET File, from \in {1, Topology} : HandleEvent(changed, from)
    PROVE  Types'
<1> USE SurfaceAssumption DEF File, Topology
<1>1. CASE handle_chat_command_tick
  <2>1. UNCHANGED <<document, terminalVars, counters>>
    BY <1>1 DEF handle_chat_command_tick
  <2>2. CASE UNCHANGED nodeVars
    BY <2>1, <2>2 DEF Types, NodeTypes, TerminalTypes, CounterTypes, nodeVars, terminalVars, counters
  <2>3. CASE Persist([f \in File |-> held[f] + 1], 1) /\ UNCHANGED store
    <3>1. NodeTypes'
      BY <2>3 DEF Types, NodeTypes, Persist, Content
    <3>2. QED
      BY <2>1, <3>1 DEF Types, TerminalTypes, CounterTypes, terminalVars, counters
  <2>4. QED
    BY <1>1, <2>2, <2>3 DEF handle_chat_command_tick
<1>2. CASE OpenFile
  BY <1>2 DEF OpenFile, Types, NodeTypes, TerminalTypes, CounterTypes, terminalVars, counters
<1>3. CASE WriteFile
  <2>1. PICK p \in persisting : \E content \in Filled(p.file, held[p.file]) :
          /\ store' = [store EXCEPT ![p.file] = content]
          /\ persisting' = NextFile(p.file)
    BY <1>3 DEF WriteFile
  <2>2. p.file \in File /\ held[p.file] \in Nat
    BY DEF Types, NodeTypes, Content
  <2>3. NodeTypes'
    BY <1>3, <2>1, <2>2 DEF WriteFile, Types, NodeTypes, Filled, NextFile
  <2>4. QED
    BY <1>3, <2>3 DEF WriteFile, Types, TerminalTypes, CounterTypes, terminalVars, counters
<1>4. CASE NodeStarts
  <2>1. \A f \in File \ {Topology} : (CHOOSE v \in store[f] : TRUE) \in Nat
    BY <1>4 DEF NodeStarts, Types, NodeTypes
  <2>2. held' \in Content /\ persisting' \in SUBSET [file : File, open : BOOLEAN]
    BY <1>4, <2>1 DEF NodeStarts, Persist, Content
  <2>3. QED
    BY <1>4, <2>2 DEF NodeStarts, Types, NodeTypes, TerminalTypes, CounterTypes, terminalVars
<1>5. CASE NodeCrashes
  BY <1>5 DEF NodeCrashes, Types, NodeTypes, TerminalTypes, CounterTypes, terminalVars, counters
<1>6. ASSUME NEW changed \in SUBSET File, NEW from \in {1, Topology}, HandleEvent(changed, from)
      PROVE  Types'
  BY <1>6 DEF HandleEvent, Persist, Types, NodeTypes, TerminalTypes, CounterTypes, Content,
              terminalVars
<1>7. QED
  BY <1>1, <1>2, <1>3, <1>4, <1>5, <1>6 DEF NodeStep

\* Both outcomes of a render keep the terminal's types.
LEMMA TypesRender ==
    ASSUME Types, UNCHANGED <<document, render, typed, copy>>,
           \/ \E e \in Error : render_surface_error_boundary(e)
           \/ \E vs \in Content :
                RenderFrame([input |-> render.input, files |-> vs])
    PROVE  TerminalTypes'
<1> USE SurfaceAssumption
<1>1. CASE \E e \in Error : render_surface_error_boundary(e)
  <2>1. PICK e \in Error : render_surface_error_boundary(e)
    BY <1>1
  <2>2. pc' \in {"told", "prompt"} /\ frame' = EmptyFrame
    BY <2>1 DEF render_surface_error_boundary, Continue
  <2>3. CASE ui.error # {e}
    <3>1. /\ ui' = [ui EXCEPT !.input = render.input, !.error = {e}]
          /\ screen' = [error |-> {e}, document |-> {}, state |-> {}]
      BY <2>1, <2>3 DEF render_surface_error_boundary
    <3>2. ui \in RuntimeUiSurfaceState /\ render.input \in Value
      BY DEF Types, TerminalTypes
    <3>3. ui' \in RuntimeUiSurfaceState
      BY <3>1, <3>2 DEF RuntimeUiSurfaceState
    <3>4. screen' \in TerminalRenderedSurface
      BY <3>1 DEF TerminalRenderedSurface
    <3>5. QED
      BY <2>2, <3>3, <3>4 DEF Types, TerminalTypes, EmptyFrame, Frame
  <2>4. CASE ui.error = {e}
    <3>1. UNCHANGED <<ui, screen>>
      BY <2>1, <2>4 DEF render_surface_error_boundary
    <3>2. QED
      BY <2>2, <3>1 DEF Types, TerminalTypes, EmptyFrame, Frame
  <2>5. QED
    BY <2>3, <2>4
<1>2. CASE \E vs \in Content : RenderFrame([input |-> render.input, files |-> vs])
  <2>1. PICK vs \in Content : RenderFrame([input |-> render.input, files |-> vs])
    BY <1>2
  <2> DEFINE shown == [input |-> render.input, files |-> vs]
  <2>2. shown \in [input : Value, files : Content]
    BY DEF Types, TerminalTypes
  <2>3. ui' \in RuntimeUiSurfaceState /\ screen' \in TerminalRenderedSurface
    <3>1. frame.document \in SUBSET Document /\ {shown} \in SUBSET [input : Value, files : Content]
      BY <2>2 DEF Types, TerminalTypes, Frame
    <3>2. CASE Changed(shown)
      <4>1. /\ ui' = [input |-> render.input, error |-> {}, document |-> frame.document,
                      state |-> {shown}]
            /\ screen' = [error |-> {}, document |-> frame.document, state |-> {shown}]
        BY <2>1, <3>2 DEF RenderFrame
      <4>2. QED
        BY <3>1, <4>1 DEF Types, TerminalTypes, RuntimeUiSurfaceState, TerminalRenderedSurface
    <3>3. CASE ~Changed(shown)
      BY <2>1, <3>3 DEF RenderFrame, Types, TerminalTypes
    <3>4. QED
      BY <3>2, <3>3
  <2>4. pc' \in {"told", "prompt"} /\ frame' = EmptyFrame
    BY <2>1 DEF RenderFrame, Continue
  <2>5. QED
    BY <2>3, <2>4 DEF Types, TerminalTypes, EmptyFrame, Frame
<1>3. QED
  BY <1>1, <1>2

\* The files a frame has read when it reads the last one.
LEMMA ReadIsContent ==
    ASSUME Types, Len(frame.files) + 1 = Topology, NEW v \in store[Len(frame.files) + 1]
    PROVE  Append(frame.files, v) \in Content
<1> USE SurfaceAssumption
<1>1. Len(frame.files) + 1 \in File
  BY DEF Types, TerminalTypes, Frame, File, Topology
<1>2. v \in Nat
  BY <1>1 DEF Types, NodeTypes
<1>3. Append(frame.files, v) \in Seq(Nat) /\ Len(Append(frame.files, v)) = ChatFiles + 1
  BY <1>2 DEF Types, TerminalTypes, Frame, Topology
<1>4. Append(frame.files, v) \in [1..Len(Append(frame.files, v)) -> Nat]
  BY <1>3, LenProperties
<1>5. QED
  BY <1>3, <1>4 DEF Content, File

\* The render's reads keep the types.
LEMMA TypesRead ==
    ASSUME Types, ReadDocument \/ build_chat_bindings
    PROVE  Types'
<1> USE SurfaceAssumption
<1>1. CASE ReadDocument
  <2>1. CASE document \in Broken
    <3>1. render_surface_error_boundary("document") /\ "document" \in Error
      BY <1>1, <2>1 DEF ReadDocument, Error
    <3>2. TerminalTypes'
      BY <1>1, <3>1, TypesRender DEF ReadDocument
    <3>3. QED
      BY <1>1, <3>2 DEF ReadDocument, Types, NodeTypes, CounterTypes, nodeVars, counters
  <2>2. CASE document \notin Broken
    BY <1>1, <2>2 DEF ReadDocument, Types, NodeTypes, TerminalTypes, CounterTypes, nodeVars,
                      counters, Frame
  <2>3. QED
    BY <2>1, <2>2
<1>2. CASE build_chat_bindings
  <2> DEFINE f == Len(frame.files) + 1
  <2>1. f \in File /\ Len(frame.files) \in Nat
    BY DEF Types, TerminalTypes, Frame, File
  <2>2. CASE store[f] = {}
    <3>1. render_surface_error_boundary("binding") /\ "binding" \in Error
      BY <1>2, <2>2 DEF build_chat_bindings, Error
    <3>2. TerminalTypes'
      BY <1>2, <3>1, TypesRender DEF build_chat_bindings
    <3>3. QED
      BY <1>2, <3>2 DEF build_chat_bindings, Types, NodeTypes, CounterTypes, nodeVars, counters
  <2>3. ASSUME NEW v \in store[f], f # Topology,
               frame' = [frame EXCEPT !.files = Append(@, v)],
               UNCHANGED <<pc, ui, screen>>
        PROVE  Types'
    <3>1. v \in Nat
      BY <2>1 DEF Types, NodeTypes
    <3>2. frame' \in Frame /\ Len(frame'.files) <= ChatFiles
      <4>1. frame \in Frame /\ frame.files \in Seq(Nat) /\ Len(frame.files) < ChatFiles
        BY <2>1, <2>3 DEF Types, TerminalTypes, Frame, Topology
      <4>2. /\ Append(frame.files, v) \in Seq(Nat)
            /\ Len(Append(frame.files, v)) = Len(frame.files) + 1
        BY <3>1, <4>1
      <4>3. frame' = [document |-> frame.document, files |-> Append(frame.files, v)]
        BY <2>3, <4>1 DEF Frame
      <4>4. QED
        BY <2>1, <4>1, <4>2, <4>3 DEF Frame
    <3>3. QED
      BY <1>2, <2>3, <3>2 DEF build_chat_bindings, Types, NodeTypes, TerminalTypes, CounterTypes,
                              nodeVars, counters
  <2>4. ASSUME NEW v \in store[f], f = Topology,
               RenderFrame([input |-> render.input, files |-> Append(frame.files, v)])
        PROVE  Types'
    <3>1. Append(frame.files, v) \in Content
      BY <2>4, ReadIsContent
    <3>2. TerminalTypes'
      BY <1>2, <2>4, <3>1, TypesRender DEF build_chat_bindings
    <3>3. QED
      BY <1>2, <3>2 DEF build_chat_bindings, Types, NodeTypes, CounterTypes, nodeVars, counters
  <2>5. QED
    BY <1>2, <2>2, <2>3, <2>4 DEF build_chat_bindings
<1>3. QED
  BY <1>1, <1>2

\* What the user does, and the terminal around a render, keeps the types.
LEMMA TypesTerminal ==
    ASSUME Types,
           \/ synchronize_surface \/ Open \/ Refresh \/ PressRefused \/ PressQueues \/ PressQueued
           \/ \E value \in Value : SetInput(value)
    PROVE  Types'
<1> USE SurfaceAssumption
        DEF Types, NodeTypes, TerminalTypes, CounterTypes, nodeVars, counters, Frame, EmptyFrame
<1>1. CASE synchronize_surface
  BY <1>1 DEF synchronize_surface, Resolve, RuntimeUiSurfaceState
<1>2. CASE Open
  BY <1>2 DEF Open, Resolve, NoScreen, TerminalRenderedSurface
<1>3. CASE Refresh
  BY <1>3 DEF Refresh, Key, Resolve
<1>4. CASE PressRefused
  <2>1. ui' \in RuntimeUiSurfaceState
    BY <1>4 DEF PressRefused, RuntimeUiSurfaceState, Error
  <2>2. QED
    BY <1>4, <2>1 DEF PressRefused, Key, Resolve
<1>5. CASE PressQueues
  BY <1>5 DEF PressQueues, Key
<1>6. CASE PressQueued
  <2>1. ui' \in RuntimeUiSurfaceState
    BY <1>6 DEF PressQueued, RuntimeUiSurfaceState, Error
  <2>2. QED
    BY <1>6, <2>1 DEF PressQueued, Resolve
<1>7. ASSUME NEW value \in Value, SetInput(value) PROVE Types'
  BY <1>7 DEF SetInput, Key, Resolve
<1>8. QED
  BY <1>1, <1>2, <1>3, <1>4, <1>5, <1>6, <1>7

\* topology.json as the terminal writes it, and everybody else.
LEMMA TypesOthers ==
    ASSUME Types,
           \/ LoadTopology \/ OpenTopology \/ SaveTopology
           \/ \E w \in Writer : OtherCommand(w)
           \/ \E d \in Document : EditDocument(d)
    PROVE  Types'
<1> USE SurfaceAssumption
        DEF Types, NodeTypes, TerminalTypes, CounterTypes, nodeVars, counters, File, Topology
<1>1. CASE LoadTopology \/ OpenTopology
  <2>1. CASE LoadTopology
    <3>1. copy' \subseteq Nat
      BY <2>1 DEF LoadTopology
    <3>2. QED
      BY <2>1, <3>1 DEF LoadTopology
  <2>2. CASE OpenTopology
    <3>1. store' \in [File -> SUBSET Nat]
      BY <2>2 DEF OpenTopology
    <3>2. QED
      BY <2>2, <3>1 DEF OpenTopology
  <2>3. QED
    BY <1>1, <2>1, <2>2
<1>2. CASE SaveTopology
  <2>1. PICK v \in copy : \E content \in Filled(Topology, v) :
          store' = [store EXCEPT ![Topology] = content]
    BY <1>2 DEF SaveTopology
  <2>2. \A content \in Filled(Topology, v) : content \subseteq Nat
    BY DEF Filled
  <2>3. QED
    BY <1>2, <2>1, <2>2 DEF SaveTopology
<1>3. CASE \E w \in Writer : OtherCommand(w)
  BY <1>3 DEF OtherCommand, terminalVars
<1>4. CASE \E d \in Document : EditDocument(d)
  BY <1>4 DEF EditDocument, terminalVars
<1>5. QED
  BY <1>1, <1>2, <1>3, <1>4

\* Every step keeps the types.
LEMMA TypesStep == Types /\ [Next]_vars => Types'
<1> SUFFICES ASSUME Types, [Next]_vars PROVE Types'
  OBVIOUS
<1>1. CASE Next
  BY <1>1, TypesNode, TypesRead, TypesTerminal, TypesOthers DEF Next, TerminalStep
<1>2. CASE UNCHANGED vars
  BY <1>2 DEF vars, Types, NodeTypes, TerminalTypes, CounterTypes
<1>3. QED
  BY <1>1, <1>2

\* Every reachable state is well typed.
THEOREM TypeCorrect == Spec => []TypeOK
<1>1. QueueTypeOK /\ Types => TypeOK
  BY DEF Types, NodeTypes, TerminalTypes, CounterTypes, TypeOK
<1>2. QED
  BY <1>1, QueueTypes, TypesInit, TypesStep, PTL DEF Spec

-----------------------------------------------------------------------------
(* The screen and the record.                                              *)

\* The screen shows what the record says.
Consistent ==
    /\ screen.error = ui.error
    /\ ui.error = {} => /\ screen.document = ui.document
                        /\ screen.state = ui.state
                        /\ \A shown \in ui.state : shown.input = ui.input

\* Before a render that may leave the screen alone the two agree.  A forced one
\* replaces both, or it follows an open that has shown nothing yet: after a
\* dispatch the record holds no error of a render, so no render can repeat it.
Rendering ==
    \/ Consistent
    \/ render.force /\ ui.error \in {{}, {"action"}}
    \/ render.force /\ screen = NoScreen

ScreenInv ==
    /\ pc = "prompt" => Consistent
    /\ pc = "resolving" => Rendering
    /\ pc \in {"told", "loaded", "saving"} => Consistent \/ screen = NoScreen

\* A render ends with screen and record in agreement, or with the failure of an
\* open.
LEMMA RenderAgrees ==
    ASSUME Types, Rendering, UNCHANGED render,
           \/ render_surface_error_boundary("document")
           \/ render_surface_error_boundary("binding")
           \/ \E vs \in Content :
                RenderFrame([input |-> render.input, files |-> vs])
    PROVE  ScreenInv'
<1>1. ASSUME NEW e \in {"document", "binding"}, render_surface_error_boundary(e)
      PROVE  ScreenInv'
  <2>1. CASE ui.error # {e}
    <3>1. ui \in RuntimeUiSurfaceState
      BY DEF Types, TerminalTypes
    <3>2. /\ ui' = [ui EXCEPT !.input = render.input, !.error = {e}]
          /\ screen' = [error |-> {e}, document |-> {}, state |-> {}]
      BY <1>1, <2>1 DEF render_surface_error_boundary
    <3>3. ui'.error = {e} /\ screen'.error = {e}
      BY <3>1, <3>2 DEF RuntimeUiSurfaceState
    <3>4. pc' \in {"told", "prompt"}
      BY <1>1 DEF render_surface_error_boundary, Continue
    <3>5. QED
      BY <3>3, <3>4 DEF ScreenInv, Consistent
  <2>2. CASE ui.error = {e}
    <3>1. UNCHANGED <<ui, screen>> /\ pc' = (IF render.force THEN "told" ELSE "prompt")
      BY <1>1, <2>2 DEF render_surface_error_boundary, Continue
    <3>2. Consistent \/ (render.force /\ screen = NoScreen)
      BY <2>2 DEF Rendering
    <3>3. QED
      BY <3>1, <3>2 DEF ScreenInv, Consistent
  <2>3. QED
    BY <2>1, <2>2
<1>2. ASSUME NEW vs \in Content, RenderFrame([input |-> render.input, files |-> vs])
      PROVE  ScreenInv'
  <2> DEFINE shown == [input |-> render.input, files |-> vs]
  <2>1. CASE Changed(shown)
    <3>1. /\ ui' = [input |-> render.input, error |-> {}, document |-> frame.document,
                    state |-> {shown}]
          /\ screen' = [error |-> {}, document |-> frame.document, state |-> {shown}]
          /\ pc' = "told"
      BY <1>2, <2>1 DEF RenderFrame, Continue
    <3>2. Consistent'
      BY <3>1 DEF Consistent
    <3>3. QED
      BY <3>1, <3>2 DEF ScreenInv
  <2>2. CASE ~Changed(shown)
    <3>1. UNCHANGED <<ui, screen>> /\ pc' = "prompt"
      BY <1>2, <2>2 DEF RenderFrame, Continue
    <3>2. Consistent
      BY <2>2 DEF Changed, Rendering
    <3>3. QED
      BY <3>1, <3>2 DEF ScreenInv, Consistent
  <2>3. QED
    BY <2>1, <2>2
<1>3. QED
  BY <1>1, <1>2

\* The two reads: a step inside a render, or its end.
LEMMA ScreenRead ==
    ASSUME Types, ScreenInv, ReadDocument \/ build_chat_bindings
    PROVE  ScreenInv'
<1>1. Rendering
  BY DEF ScreenInv, ReadDocument, build_chat_bindings
<1>2. CASE UNCHANGED <<pc, ui, screen, render>>
  BY <1>2 DEF ScreenInv, Consistent, Rendering
<1>3. CASE ReadDocument /\ ~UNCHANGED <<pc, ui, screen, render>>
  BY <1>1, <1>3, RenderAgrees DEF ReadDocument
<1>4. CASE build_chat_bindings /\ ~UNCHANGED <<pc, ui, screen, render>>
  <2> DEFINE f == Len(frame.files) + 1
  <2>1. UNCHANGED render
    BY <1>4 DEF build_chat_bindings
  <2>2. CASE store[f] = {}
    BY <1>1, <1>4, <2>1, <2>2, RenderAgrees DEF build_chat_bindings
  <2>3. CASE store[f] # {}
    <3>1. PICK v \in store[f] :
            f = Topology /\ RenderFrame([input |-> render.input, files |-> Append(frame.files, v)])
      BY <1>4, <2>1, <2>3 DEF build_chat_bindings
    <3>2. Append(frame.files, v) \in Content
      BY <3>1, ReadIsContent
    <3>3. QED
      BY <1>1, <2>1, <3>1, <3>2, RenderAgrees
  <2>4. QED
    BY <2>2, <2>3
<1>5. QED
  BY <1>2, <1>3, <1>4

\* Every step keeps screen and record together.
LEMMA ScreenStep == Types /\ ScreenInv /\ [Next]_vars => ScreenInv'
<1> SUFFICES ASSUME Types, ScreenInv, [Next]_vars PROVE ScreenInv'
  OBVIOUS
<1>1. CASE UNCHANGED <<pc, render, ui, screen>>
  BY <1>1 DEF ScreenInv, Consistent, Rendering
<1>2. CASE UNCHANGED vars
  BY <1>1, <1>2 DEF vars
<1>3. CASE NodeStep \/ NodeStarts \/ NodeCrashes
  BY <1>1, <1>3 DEF NodeStep, handle_chat_command_tick, OpenFile, WriteFile, NodeStarts,
                    NodeCrashes, terminalVars
<1>4. CASE \E changed \in SUBSET File, from \in {1, Topology} : HandleEvent(changed, from)
  BY <1>1, <1>4 DEF HandleEvent, terminalVars
<1>5. CASE ReadDocument \/ build_chat_bindings
  BY <1>5, ScreenRead
<1>6. CASE synchronize_surface \/ Refresh \/ \E value \in Value : SetInput(value)
  <2>1. Consistent /\ UNCHANGED <<ui, screen>> /\ pc' = "resolving"
    BY <1>6 DEF synchronize_surface, Refresh, SetInput, Key, Resolve, ScreenInv
  <2>2. QED
    BY <2>1 DEF ScreenInv, Consistent, Rendering
<1>7. CASE PressRefused \/ PressQueued
  <2>1. ui \in RuntimeUiSurfaceState
    BY DEF Types, TerminalTypes
  <2>2. ui'.error \in {{}, {"action"}}
    BY <1>7, <2>1 DEF PressRefused, PressQueued, RuntimeUiSurfaceState
  <2>3. render'.force /\ pc' = "resolving"
    BY <1>7 DEF PressRefused, PressQueued, Resolve
  <2>4. QED
    BY <2>2, <2>3 DEF ScreenInv, Rendering
<1>8. CASE PressQueues
  BY <1>8 DEF PressQueues, ScreenInv
<1>9. CASE Open
  BY <1>9 DEF Open, Resolve, ScreenInv, Rendering
<1>10. CASE LoadTopology \/ OpenTopology \/ SaveTopology
  BY <1>10 DEF LoadTopology, OpenTopology, SaveTopology, ScreenInv, Consistent
<1>11. CASE \E w \in Writer : OtherCommand(w)
  BY <1>1, <1>11 DEF OtherCommand, terminalVars
<1>12. CASE \E d \in Document : EditDocument(d)
  BY <1>1, <1>12 DEF EditDocument, terminalVars
<1>13. QED
  BY <1>2, <1>3, <1>4, <1>5, <1>6, <1>7, <1>8, <1>9, <1>10, <1>11, <1>12 DEF Next, TerminalStep

\* What the user sees at the prompt is what the record says.
THEOREM ScreenAgrees == Spec => []ScreenIsRecord
<1>1. Init => ScreenInv
  BY DEF Init, ScreenInv
<1>2. ScreenInv => ScreenIsRecord
  BY DEF ScreenInv, Consistent, ScreenIsRecord
<1>3. QED
  BY <1>1, <1>2, TypesInit, TypesStep, ScreenStep, PTL DEF Spec

=============================================================================
