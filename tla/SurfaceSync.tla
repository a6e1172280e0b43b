---------------------------- MODULE SurfaceSync ----------------------------
(***************************************************************************)
(* The chat surface a void-cli `open` keeps on the terminal, next to the   *)
(* running node it shows.  They share files: the node rewrites its chat    *)
(* state and topology.json in place, the surface reads them, together with *)
(* its own document, whenever it renders; what the user presses becomes a  *)
(* command file (CommandQueue) the node carries out; and after every       *)
(* render the terminal writes what it knows into topology.json as well.    *)
(*                                                                         *)
(* A file is a set: empty while it is torn, otherwise its one content.     *)
(* What the node holds and writes is a version number per file.            *)
(***************************************************************************)
EXTENDS CommandQueue, Sequences

CONSTANTS
    Document,   \* what the surface's document may contain
    Shipped,    \* the document ensure_builtin_surface_file writes
    Broken,     \* the documents that do not parse
    Value,      \* what the user may type
    Blank,      \* the inputs before anything is typed
    ChatFiles,  \* number of files chat.persist writes (four in the code)
    Terminal,   \* the writer that is the surface's process
    MaxChanges, \* bound: changes of the node's state by others
    MaxEdits,   \* bound: edits of the document
    MaxKeys,    \* bound: lines the user types
    MaxStarts   \* bound: starts of the node

ASSUME SurfaceAssumption ==
    /\ Broken \subseteq Document
    /\ Shipped \in Document
    /\ Blank \in Value
    /\ ChatFiles \in Nat
    /\ Terminal \in Writer
    /\ MaxChanges \in Nat /\ MaxEdits \in Nat /\ MaxKeys \in Nat
    /\ MaxStarts \in Nat

\* The chat files in the order they are written and read, then topology.json.
File == 1..(ChatFiles + 1)

Topology == ChatFiles + 1

VARIABLES
    document,   \* the surface's document
    store,      \* store[f]: file f
    held,       \* held[f]: the node's version of it
    persisting, \* the file the node is at while it persists
    pc,         \* where the terminal is
    render,     \* the render it is resolving: its inputs, and whether forced
    frame,      \* what that render has read so far
    ui,         \* the RuntimeUiSurfaceState of the route, kept in shell.json
    typed,      \* the terminal's own input_state
    screen,     \* the TerminalRenderedSurface on the terminal
    copy,       \* the terminal's copy of topology.json
    changes, edits, keys, starts

vars == <<queueVars, document, store, held, persisting, pc, render, frame, ui, typed,
          screen, copy, changes, edits, keys, starts>>

nodeVars == <<store, held, persisting>>

terminalVars == <<pc, render, frame, ui, typed, screen, copy>>

counters == <<changes, edits, keys, starts>>

Error == {"document", "binding", "action"}

Content == [File -> Nat]

\* document and state are the source_snapshot's hashes of the last frame that
\* rendered; the local inputs are part of the hashed state.
RuntimeUiSurfaceState ==
    [input : Value, error : SUBSET Error, document : SUBSET Document,
     state : SUBSET [input : Value, files : Content]]

NoSurface == [input |-> Blank, error |-> {}, document |-> {}, state |-> {}]

TerminalRenderedSurface ==
    [error : SUBSET Error, document : SUBSET Document,
     state : SUBSET [input : Value, files : Content]]

NoScreen == [error |-> {}, document |-> {}, state |-> {}]

Frame == [document : SUBSET Document, files : Seq(Nat)]

EmptyFrame == [document |-> {}, files |-> <<>>]

-----------------------------------------------------------------------------
(* The node's writes: chat.persist, then persist_topology.                 *)

Persist(versions, from) ==
    /\ held' = versions
    /\ persisting' = {[file |-> from, open |-> FALSE]}

NodeIdle == node = "idle" /\ persisting = {}

\* A handler: what a peer sent or a connection did, or a tick that changes
\* nothing and persists all the same.
HandleEvent(changed, from) ==
    /\ NodeIdle
    /\ changed \subseteq from..Topology
    /\ changes < MaxChanges
    /\ changes' = changes + 1
    /\ Persist([f \in File |-> IF f \in changed THEN held[f] + 1 ELSE held[f]], from)
    /\ UNCHANGED <<queueVars, document, store, edits, keys, starts, terminalVars>>

handle_chat_command_tick ==
    /\ persisting = {}
    /\ \/ ListCommands /\ UNCHANGED nodeVars
       \/ /\ \E c \in Command : DrainCommand(c) \/ DrainError(c)
          /\ UNCHANGED nodeVars
       \/ /\ ProcessCommands
          /\ Persist([f \in File |-> held[f] + 1], 1)
          /\ UNCHANGED store
    /\ UNCHANGED <<document, terminalVars, counters>>

OpenFile ==
    /\ \E p \in persisting :
         /\ ~p.open
         /\ store' = [store EXCEPT ![p.file] = {}]
         /\ persisting' = {[p EXCEPT !.open = TRUE]}
    /\ UNCHANGED <<queueVars, document, held, terminalVars, counters>>

\* Two writers of a file that both truncated it leave a mixture when the first
\* to finish wrote more than the second.
Filled(f, content) == {{content}} \cup (IF store[f] # {} THEN {{}} ELSE {})

\* Fault: the list of files is left one too late.
NextFilePast(f) == {[file |-> f + 1, open |-> FALSE]}

NextFile(f) == IF f = Topology THEN {} ELSE {[file |-> f + 1, open |-> FALSE]}

WriteFile ==
    /\ \E p \in persisting :
         /\ p.open
         /\ \E content \in Filled(p.file, held[p.file]) :
              store' = [store EXCEPT ![p.file] = content]
         /\ persisting' = NextFile(p.file)
    /\ UNCHANGED <<queueVars, document, held, terminalVars, counters>>

\* Chat state is loaded, a torn file is an error; the topology starts empty.
\* What was loaded is written back.
NodeStarts ==
    /\ starts < MaxStarts
    /\ starts' = starts + 1
    /\ StartNode
    /\ \A f \in File \ {Topology} : store[f] # {}
    /\ Persist([f \in File |-> IF f = Topology THEN 0 ELSE CHOOSE v \in store[f] : TRUE], 1)
    /\ UNCHANGED <<document, store, terminalVars, changes, edits, keys>>

NodeCrashes ==
    /\ Crash
    /\ persisting' = {}
    /\ UNCHANGED <<document, store, held, terminalVars, counters>>

-----------------------------------------------------------------------------
(* render_surface.                                                         *)

\* A render of any kind, up to its first read.
Resolve(input, force) ==
    /\ pc' = "resolving"
    /\ render' = [input |-> input, force |-> force]
    /\ frame' = EmptyFrame

\* The terminal goes on: a render that changed anything, and every forced one,
\* is followed by persist_runtime_shell_topology.
Continue(told) ==
    /\ pc' = IF told THEN "told" ELSE "prompt"
    /\ frame' = EmptyFrame

\* Fault: the error screen is shown, the record still says all is well.
BoundaryUnrecorded(error) ==
    /\ IF ui.error = {error} THEN UNCHANGED <<ui, screen>>
       ELSE /\ ui' = [ui EXCEPT !.input = render.input]
            /\ screen' = [error |-> {error}, document |-> {}, state |-> {}]
    /\ Continue(render.force \/ ui.error # {error})

\* The same error twice is no change: neither the record nor the inputs are
\* stored, and a forced render fails with SurfaceNotRendered.
render_surface_error_boundary(error) ==
    /\ IF ui.error = {error} THEN UNCHANGED <<ui, screen>>
       ELSE /\ ui' = [ui EXCEPT !.input = render.input, !.error = {error}]
            /\ screen' = [error |-> {error}, document |-> {}, state |-> {}]
    /\ Continue(render.force \/ ui.error # {error})

\* Fault: a hot reload is not looked for.
ChangedState(shown) == render.force \/ ui.state # {shown}

\* Fault: every tick renders.
AlwaysChanged(shown) == TRUE

Changed(shown) ==
    render.force \/ ui.state # {shown} \/ ui.document # frame.document

RenderFrame(shown) ==
    IF Changed(shown)
    THEN /\ ui' = [input |-> render.input, error |-> {}, document |-> frame.document,
                   state |-> {shown}]
         /\ screen' = [error |-> {}, document |-> frame.document, state |-> {shown}]
         /\ Continue(TRUE)
    ELSE /\ UNCHANGED <<ui, screen>>
         /\ Continue(FALSE)

ReadDocument ==
    /\ pc = "resolving"
    /\ frame.document = {}
    /\ IF document \in Broken
       THEN render_surface_error_boundary("document")
       ELSE /\ frame' = [frame EXCEPT !.document = {document}]
            /\ UNCHANGED <<pc, ui, screen>>
    /\ UNCHANGED <<queueVars, nodeVars, document, render, typed, copy, counters>>

\* The files one after the other; the last one completes the frame.
build_chat_bindings ==
    /\ pc = "resolving"
    /\ frame.document # {}
    /\ LET f == Len(frame.files) + 1
       IN IF store[f] = {}
          THEN render_surface_error_boundary("binding")
          ELSE \E v \in store[f] :
                 IF f # Topology
                 THEN /\ frame' = [frame EXCEPT !.files = Append(@, v)]
                      /\ UNCHANGED <<pc, ui, screen>>
                 ELSE RenderFrame([input |-> render.input,
                                   files |-> Append(frame.files, v)])
    /\ UNCHANGED <<queueVars, nodeVars, document, render, typed, copy, counters>>

-----------------------------------------------------------------------------
(* interactive_surface_loop.                                               *)

\* A line the user types.
Key ==
    /\ pc = "prompt"
    /\ keys < MaxKeys
    /\ keys' = keys + 1

\* The mount of open_uri renders once, with no inputs; the terminal's own come
\* from the record.
Open ==
    /\ pc = "off"
    /\ keys < MaxKeys
    /\ keys' = keys + 1
    /\ Resolve(Blank, TRUE)
    /\ screen' = NoScreen
    /\ typed' = Blank
    /\ UNCHANGED <<queueVars, nodeVars, document, ui, copy, changes, edits, starts>>

\* 500 ms without a line.
synchronize_surface ==
    /\ pc = "prompt"
    /\ Resolve(ui.input, FALSE)
    /\ UNCHANGED <<queueVars, nodeVars, document, ui, typed, screen, copy, counters>>

SetInput(value) ==
    /\ Key
    /\ typed' = value
    /\ Resolve(value, TRUE)
    /\ UNCHANGED <<queueVars, nodeVars, document, ui, screen, copy, changes, edits, starts>>

Refresh ==
    /\ Key
    /\ Resolve(typed, TRUE)
    /\ UNCHANGED <<queueVars, nodeVars, document, ui, typed, screen, copy, changes, edits, starts>>

\* dispatch_surface_action of a button on the screen; an error screen has none.
\* The action is refused, for a capability or an input it misses ...
PressRefused ==
    /\ Key
    /\ screen.error = {}
    /\ ui' = [ui EXCEPT !.error = {"action"}, !.input = typed]
    /\ Resolve(typed, TRUE)
    /\ UNCHANGED <<queueVars, nodeVars, document, typed, screen, copy, changes, edits, starts>>

\* ... or its command is queued, and the surface renders once the file is full.
PressQueues ==
    /\ Key
    /\ screen.error = {}
    /\ CreateCommand(Terminal)
    /\ pc' = "pressing"
    /\ UNCHANGED <<nodeVars, document, render, frame, ui, typed, screen, copy, changes, edits, starts>>

PressQueued ==
    /\ pc = "pressing"
    /\ WriteCommand(Terminal)
    /\ ui' = [ui EXCEPT !.error = {}, !.input = typed]
    /\ Resolve(typed, TRUE)
    /\ UNCHANGED <<nodeVars, document, typed, screen, copy, counters>>

\* persist_runtime_shell_topology loads topology.json and saves it again; a torn
\* file ends the loop.
LoadTopology ==
    /\ pc = "told"
    /\ copy' = store[Topology]
    /\ pc' = IF store[Topology] = {} THEN "off" ELSE "loaded"
    /\ UNCHANGED <<queueVars, nodeVars, document, render, frame, ui, typed, screen, counters>>

OpenTopology ==
    /\ pc = "loaded"
    /\ store' = [store EXCEPT ![Topology] = {}]
    /\ pc' = "saving"
    /\ UNCHANGED <<queueVars, held, persisting, document, render, frame, ui, typed, screen,
                   copy, counters>>

\* An open that failed to render ends here.
SaveTopology ==
    /\ pc = "saving"
    /\ \E v \in copy : \E content \in Filled(Topology, v) :
         store' = [store EXCEPT ![Topology] = content]
    /\ pc' = IF screen = NoScreen THEN "off" ELSE "prompt"
    /\ copy' = {}
    /\ UNCHANGED <<queueVars, held, persisting, document, render, frame, ui, typed, screen,
                   counters>>

-----------------------------------------------------------------------------
(* Everybody else.                                                         *)

\* A void-cli chat command.
OtherCommand(w) ==
    /\ w # Terminal
    /\ CreateCommand(w) \/ WriteCommand(w) \/ AbandonCommand(w)
    /\ UNCHANGED <<nodeVars, document, terminalVars, counters>>

\* Somebody edits the surface's document.
EditDocument(d) ==
    /\ edits < MaxEdits
    /\ d # document
    /\ edits' = edits + 1
    /\ document' = d
    /\ UNCHANGED <<queueVars, nodeVars, terminalVars, changes, keys, starts>>

-----------------------------------------------------------------------------

Init ==
    /\ QueueInit
    /\ document = Shipped
    /\ store = [f \in File |-> {0}]
    /\ held = [f \in File |-> 0]
    /\ persisting = {}
    /\ pc = "off"
    /\ render = [input |-> Blank, force |-> FALSE]
    /\ frame = EmptyFrame
    /\ ui = NoSurface
    /\ typed = Blank
    /\ screen = NoScreen
    /\ copy = {}
    /\ changes = 0 /\ edits = 0 /\ keys = 0 /\ starts = 0

NodeStep == handle_chat_command_tick \/ OpenFile \/ WriteFile

TerminalStep ==
    \/ synchronize_surface \/ ReadDocument \/ build_chat_bindings
    \/ PressQueued \/ LoadTopology \/ OpenTopology \/ SaveTopology

Next ==
    \/ NodeStep \/ NodeStarts \/ NodeCrashes
    \/ \E changed \in SUBSET File, from \in {1, Topology} : HandleEvent(changed, from)
    \/ TerminalStep \/ Open \/ Refresh \/ PressRefused \/ PressQueues
    \/ \E value \in Value : SetInput(value)
    \/ \E w \in Writer : OtherCommand(w)
    \/ \E d \in Document : EditDocument(d)

Spec == Init /\ [][Next]_vars

\* The loop renders every 500 ms while nothing is typed, and a running node
\* finishes what it writes.
FairSpec == Spec /\ WF_vars(TerminalStep) /\ WF_vars(OpenFile \/ WriteFile)

-----------------------------------------------------------------------------
(* Properties. *)

\* Every variable keeps its type.
TypeOK ==
    /\ QueueTypeOK
    /\ document \in Document
    /\ store \in [File -> SUBSET Nat]
    /\ held \in Content
    /\ persisting \in SUBSET [file : File, open : BOOLEAN]
    /\ pc \in {"off", "prompt", "resolving", "pressing", "told", "loaded", "saving"}
    /\ render \in [input : Value, force : BOOLEAN]
    /\ frame \in Frame /\ Len(frame.files) <= ChatFiles
    /\ ui \in RuntimeUiSurfaceState
    /\ typed \in Value
    /\ screen \in TerminalRenderedSurface
    /\ copy \subseteq Nat
    /\ changes \in Nat /\ edits \in Nat /\ keys \in Nat /\ starts \in Nat

\* What the user sees at the prompt is what the surface's record in shell.json
\* says was rendered last, an error screen exactly when it holds an error,
\* although dispatches, failed renders and syncs write the record on their own.
ScreenIsRecord ==
    pc = "prompt" =>
        /\ screen.error = ui.error
        /\ ui.error = {} => /\ screen.document = ui.document
                            /\ screen.state = ui.state
                            /\ \A shown \in ui.state : shown.input = ui.input

Undamaged == document \notin Broken /\ \A f \in File : store[f] # {}

Current ==
    /\ ui.document = {document}
    /\ \E shown \in ui.state : \A f \in File : store[f] = {shown.files[f]}

\* However edits, torn files and renders raced, once nothing changes any more a
\* surface that is open has rendered the document and the files as they are.
ChangesAreShown == <>[](pc # "off" /\ Undamaged => Current)

\* No render feeds the next one through the topology.json it reads and writes:
\* once nothing changes the terminal neither renders nor writes.
SurfaceRests == <>[](pc # "told")

=============================================================================
