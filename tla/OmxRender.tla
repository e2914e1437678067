----------------------------- MODULE OmxRender -----------------------------
(***************************************************************************)
(* The video renderer of src/omx.c: the client of an OpenMAX component     *)
(* that obeys its commands when it gets to them.  Sessions open the        *)
(* renderer for a width, show frames and close it, one call after another: *)
(* Player shows that main() and the decoding thread do not meet here.      *)
(*                                                                         *)
(* The component is known from what the code expects of it: a port can     *)
(* only be set while it is disabled or the component not in use (273), the *)
(* way to Idle waits for the buffers (391), the way to Loaded for their    *)
(* release, and any of it may take longer than the client waits.           *)
(***************************************************************************)
EXTENDS Integers, Sequences, FiniteSets

CONSTANTS
  MaxBacklog, \* bound: sessions begin with so many commands left at most
  Widths,   \* the widths of the sessions
  NBuf,     \* nBufferCountActual
  Aligned,  \* the multiple widths are rounded up to (VCOS_ALIGN_UP)
  Faults    \* what may be: "late": commands are obeyed while the client goes on;
            \* "timeout": they take longer than its 50 polls; "set", "alloc":
            \* such a call fails

ASSUME OmxAssumption ==
  /\ Widths \subseteq Nat /\ NBuf \in Nat \ {0} /\ Aligned \in Nat \ {0}
  /\ Faults \subseteq {"late", "timeout", "set", "alloc"}

VARIABLES
  pc,        \* where the client is; "lost": it used a pointer that was never set
  st,        \* omx_state: buffers, num_buffers and current_buffer
  width,     \* what omx_display_enable was called with
  portdef,   \* its copy of the port definition
  err,       \* its result so far is not 0
  opened,    \* the last call returned 0
  comp,      \* the component: state, enabled, width of the port
  commands,  \* what it was told and has not done
  live,      \* its allocated buffers, with their sizes
  faults     \* those of the Faults that are, from the beginning

client    == <<pc, st, width, portdef, err, opened>>
component == <<comp, commands, live, faults>>
vars      == <<client, component>>

NULL == << >>
Unset == -1   \* a slot malloc gave and nothing was put in

AlignUp(w) == ((w + Aligned - 1) \div Aligned) * Aligned

Ids == 0..NBuf - 1
Header(id, size) == [id |-> id, size |-> size]

-----------------------------------------------------------------------------
(* The component.                                                           *)

Obeyable(c) ==
  CASE c = "idle"   -> comp.state = "loaded" /\ comp.enabled => Cardinality(live) = NBuf
    [] c = "loaded" -> live = {}
    [] OTHER        -> TRUE

\* A change of state that does not exist is refused.
Obeyed(c) ==
  CASE c = "enable"    -> [comp EXCEPT !.enabled = TRUE]
    [] c = "disable"   -> [comp EXCEPT !.enabled = FALSE]
    [] c = "idle"      -> [comp EXCEPT !.state = "idle"]
    [] c = "loaded"    -> [comp EXCEPT !.state = IF @ = "idle" THEN "loaded" ELSE @]
    [] c = "executing" -> [comp EXCEPT !.state = IF @ = "idle" THEN "executing" ELSE @]
    [] c = "flush"     -> comp

Busy == commands # << >> /\ Obeyable(Head(commands))

Obey ==
  /\ Busy
  /\ comp' = Obeyed(Head(commands))
  /\ commands' = Tail(commands)
  /\ UNCHANGED <<client, live, faults>>

\* The client goes on: if nothing is late, when the component has done all it can.
Step(from, to) ==
  pc = from /\ pc' = to /\ (faults \cap {"late", "timeout"} # {} \/ ~Busy)

Tell(cs) == commands' = commands \o cs

Fails(fault) == {TRUE : x \in {fault} \cap faults} \cup {FALSE}

-----------------------------------------------------------------------------
(* omx_display_enable.                                                      *)

Enable ==
  /\ Len(commands) <= MaxBacklog
  /\ \E w \in Widths : width' = w
  /\ Step("closed", IF comp.state = "executing" THEN "reopen" ELSE "config")
  /\ err' = FALSE
  /\ UNCHANGED <<st, portdef, opened, component>>

Reopen ==
  /\ Step("reopen", "free")
  /\ Tell(<<"flush", "idle", "disable">>)
  /\ UNCHANGED <<st, width, portdef, err, opened, comp, live, faults>>

\* What is left after the loop over the buffers (mutant: they are not freed).
FreedNone == live
FreedAll == {b \in live : \A i \in 1..Len(st.buffers) : st.buffers[i] # b.id}

\* omx_state after that loop (mutant: it keeps the pointers).
ReleasedKept == st
Released == [buffers |-> NULL, num |-> 0, current |-> 0]

\* The buffers are given back and the component told to unload.
Free ==
  /\ Step("free", IF \E i \in 1..st.num : st.buffers[i] = Unset THEN "lost" ELSE "config")
  /\ IF st.buffers = NULL THEN UNCHANGED <<st, live>>
     ELSE live' = FreedAll /\ st' = Released
  /\ Tell(<<"loaded">>)
  /\ UNCHANGED <<width, portdef, err, opened, comp, faults>>

\* The display region is set and the port definition read.
Config ==
  /\ \E failed \in Fails("set") :
       /\ err' = (err \/ failed)
       /\ Step("config", IF err \/ failed THEN "exit" ELSE "port")
  /\ portdef' = comp
  /\ UNCHANGED <<st, width, opened, component>>

\* A port that was closed is opened (mutant: it stays closed).
EnablePortNever == << >>
EnablePort == IF portdef.enabled THEN << >> ELSE <<"enable">>

OpenPort ==
  /\ Step("port", "set")
  /\ Tell(EnablePort)
  /\ UNCHANGED <<st, width, portdef, err, opened, comp, live, faults>>

\* The component refuses while the port is enabled and in use.
SetPort ==
  /\ \E failed \in Fails("set") :
       LET refused == failed \/ (comp.enabled /\ comp.state # "loaded")
       IN /\ err' = (err \/ refused)
          /\ comp' = IF refused THEN comp ELSE [comp EXCEPT !.width = AlignUp(width)]
          /\ Step("set", IF refused THEN "exit" ELSE "wait_port")
  /\ UNCHANGED <<st, width, portdef, opened, commands, live, faults>>

\* 50 polls see no change: the component is slower, or will do no more (mutant:
\* the client polls on).
NoTimeout == FALSE
TimesOut == "timeout" \in faults \/ ~Busy

\* block_until_port_changed
WaitPort ==
  /\ Step("wait_port", "check")
  /\ comp.enabled \/ TimesOut
  /\ UNCHANGED <<st, width, portdef, err, opened, component>>

\* What was asked for is what the port has now.
Check ==
  LET wrong == comp.width # width \/ ~comp.enabled
  IN /\ Step("check", IF wrong THEN "exit" ELSE "idle")
     /\ err' = wrong /\ portdef' = comp
     /\ UNCHANGED <<st, width, opened, component>>

\* The command and a sleep; buffers are only allocated if there are none.
Idle ==
  /\ Step("idle", IF st.buffers = NULL THEN "alloc" ELSE "execute")
  /\ Tell(<<"idle">>)
  /\ st' = IF st.buffers # NULL THEN st
           ELSE [buffers |-> [i \in 1..NBuf |-> Unset], num |-> NBuf, current |-> 0]
  /\ UNCHANGED <<width, portdef, err, opened, comp, live, faults>>

Allocate ==
  LET i  == CHOOSE k \in 1..NBuf : /\ st.buffers[k] = Unset
                                   /\ \A j \in 1..k - 1 : st.buffers[j] # Unset
      id == CHOOSE n \in Ids : \A b \in live : b.id # n
  IN \E failed \in Fails("alloc") :
       /\ Step("alloc", IF failed THEN "exit" ELSE IF i = NBuf THEN "execute" ELSE "alloc")
       /\ err' = failed
       /\ IF failed THEN UNCHANGED <<st, live>>
          ELSE /\ st' = [st EXCEPT !.buffers[i] = id]
               /\ live' = live \cup {Header(id, portdef.width)}
       /\ UNCHANGED <<width, portdef, opened, comp, commands, faults>>

Execute ==
  /\ Step("execute", "wait_state")
  /\ Tell(<<"executing">>)
  /\ UNCHANGED <<st, width, portdef, err, opened, comp, live, faults>>

\* block_until_state_changed
WaitState ==
  /\ Step("wait_state", "exit")
  /\ comp.state = "executing" \/ TimesOut
  /\ UNCHANGED <<st, width, portdef, err, opened, component>>

\* main() starts the decoding thread whatever the result is.
Exit ==
  /\ Step("exit", "open")
  /\ opened' = ~err
  /\ UNCHANGED <<st, width, portdef, err, component>>

-----------------------------------------------------------------------------
(* A frame, and omx_display_disable.                                        *)

NoBuffer == st.buffers # NULL => st.buffers[st.current + 1] = Unset

\* omx_display_input_buffer and the copy; without buffers the copy goes to a
\* pointer that was not set.
Input ==
  /\ Step("open", IF NoBuffer THEN "lost" ELSE "filled")
  /\ UNCHANGED <<st, width, portdef, err, opened, component>>

\* Around the ring (mutant: it has one slot more than there are buffers).
NextBufferBeyond == (st.current + 1) % (st.num + 1)
NextBuffer == (st.current + 1) % st.num

\* omx_display_flush_buffer: it does not wait for the buffer it comes to next.
Flush ==
  /\ Step("filled", "open")
  /\ st' = [st EXCEPT !.current = NextBuffer]
  /\ UNCHANGED <<width, portdef, err, opened, component>>

\* omx_display_disable sets the region, nothing of the state above.
Disable ==
  /\ Step("open", "closed")
  /\ UNCHANGED <<st, width, portdef, err, opened, component>>

-----------------------------------------------------------------------------
Opening == \/ Reopen \/ Free \/ Config \/ OpenPort \/ SetPort \/ WaitPort \/ Check
           \/ Idle \/ Allocate \/ Execute \/ WaitState \/ Exit

Init ==
  /\ faults \in SUBSET Faults
  /\ pc = "closed" /\ err = FALSE /\ opened = FALSE
  /\ width = 0
  /\ st = [buffers |-> NULL, num |-> 0, current |-> 0]
  /\ comp \in [state : {"loaded"}, enabled : BOOLEAN, width : {0}]
  /\ portdef = comp /\ commands = << >> /\ live = {}

Next == Enable \/ Opening \/ Input \/ Flush \/ Disable \/ Obey

\* A call of omx_display_enable goes on; the component is only fair if it does
\* not take too long.
Fairness == WF_vars(Opening) /\ WF_vars("timeout" \notin faults /\ Obey)

Spec == Init /\ [][Next]_vars /\ Fairness

-----------------------------------------------------------------------------
(* Properties.                                                              *)

Pcs == {"closed", "reopen", "free", "config", "port", "set", "wait_port", "check",
        "idle", "alloc", "execute", "wait_state", "exit", "open", "filled", "lost"}

\* All buffers of the ring are full-size slots once it is used.
TypeOK ==
  /\ pc \in Pcs /\ err \in BOOLEAN /\ opened \in BOOLEAN /\ width \in Widths \cup {0}
  /\ st.num \in {0, NBuf} /\ Len(st.buffers) = st.num /\ st.current \in 0..NBuf - 1
  /\ \A i \in 1..st.num : st.buffers[i] \in Ids \cup {Unset}
  /\ comp.state \in {"loaded", "idle", "executing"}

\* Over any number of sessions no buffer of the component is forgotten or kept
\* after it was freed: what is allocated is in the ring, and the other way round
\* (omx_display_enable frees when it reopens and allocates when it has none).
NoBufferLost ==
  {b.id : b \in live} = {st.buffers[i] : i \in 1..st.num} \ {Unset}

\* If omx_display_enable returned 0, frames of its width fit into every buffer of
\* the ring, however its steps fell between those of the component and whatever
\* was refused: unless an allocation failed or a wait was too short before.
FrameFits ==
  opened /\ faults \cap {"alloc", "timeout"} = {} /\ pc \in {"open", "filled", "lost"} =>
    /\ pc # "lost" /\ st.num = NBuf /\ st.current < st.num
    /\ \A i \in 1..NBuf : \E b \in live : b.id = st.buffers[i] /\ b.size = AlignUp(width)

\* With a component that obeys at once the renderer can be opened again and
\* again, for any aligned width, after any other, opened or refused.
AlwaysOpens ==
  faults = {} /\ pc = "open" =>
    IF width = AlignUp(width) THEN opened /\ comp.state = "executing" ELSE ~opened

\* omx_display_enable comes back, even if the component never obeys, except where
\* it frees a buffer that never was.
EnableReturns == pc \notin {"closed", "open", "filled", "lost"} ~> pc \in {"open", "lost"}
=============================================================================
