------------------------------ MODULE PathTracer ------------------------------
(***************************************************************************)
(* The program from main to its end: makePathTracer makes the services and *)
(* registers each in its AppContext, run() and the services made later get *)
(* them from there, and the destructor unregisters them.                   *)
(*                                                                         *)
(* AppContext keeps a plain pointer: what it refers to may be gone.        *)
(***************************************************************************)
EXTENDS Naturals

VARIABLES pc,
          alive,    \* the services whose objects exist
          instance  \* those whose AppContext has an instance_

vars == <<pc, alive, instance>>

\* In the order in which they are made; the last one made goes first.
Services == <<"vfs", "logSystem", "jobSystem">>

FirstOf(n) == {Services[k] : k \in 1 .. n}

Init == pc = "makeVfs" /\ alive = {} /\ instance = {}

\* The locals of makePathTracer are destroyed, but stay registered.
ReturnError == pc' = "failed" /\ alive' = {} /\ UNCHANGED instance

Register(service) ==
  /\ alive' = alive \cup {service}
  /\ instance' = instance \cup {service}

\* Fails if the root cannot be created, or if an earlier call of the thread left an
\* error behind, which getExePath takes for its own.
MakeVfs == pc = "makeVfs" /\ (ReturnError \/ (pc' = "makeFileSink" /\ Register("vfs")))

\* Nobody adds the sink to the sinks: it is closed at once.
MakeFileSink ==
  /\ pc = "makeFileSink"
  /\ ReturnError \/ (pc' = "makeLogSystem" /\ UNCHANGED <<alive, instance>>)

MakeLogSystem ==
  pc = "makeLogSystem" /\ (ReturnError \/ (pc' = "makeJobSystem" /\ Register("logSystem")))

MakeJobSystem == pc = "makeJobSystem" /\ pc' = "build" /\ Register("jobSystem")

-----------------------------------------------------------------------------
(* run() *)

\* Reads the model through the Vfs.
Build == pc = "build" /\ pc' \in {"logRow", "logError"} /\ UNCHANGED <<alive, instance>>

LogRow == pc = "logRow" /\ pc' \in {"logRow", "savePpm"} /\ UNCHANGED <<alive, instance>>

SavePpm == pc = "savePpm" /\ pc' \in {"logFinished", "logError"} /\ UNCHANGED <<alive, instance>>

LogResult ==
  pc \in {"logFinished", "logError"} /\ pc' = "unregister" /\ UNCHANGED <<alive, instance>>

-----------------------------------------------------------------------------
(* ~PathTracer: its body, and then its members in reverse order *)

Unregister ==
  /\ pc = "unregister"
  /\ \E n \in 1 .. 3 : instance = FirstOf(n) /\ instance' = FirstOf(n - 1)
  /\ pc' = IF instance' = {} THEN "destroy" ELSE "unregister"
  /\ UNCHANGED alive

Destroy ==
  /\ pc = "destroy"
  /\ \E n \in 1 .. 3 : alive = FirstOf(n) /\ alive' = FirstOf(n - 1)
  /\ UNCHANGED <<pc, instance>>

Done == pc \in {"failed", "destroy"} /\ alive = {} /\ UNCHANGED vars

Next ==
  \/ MakeVfs \/ MakeFileSink \/ MakeLogSystem \/ MakeJobSystem
  \/ Build \/ LogRow \/ SavePpm \/ LogResult
  \/ Unregister \/ Destroy \/ Done

Spec == Init /\ [][Next]_vars
-----------------------------------------------------------------------------
\* The services that the next step gets from an AppContext.
Gets ==
  CASE pc \in {"makeFileSink", "build", "savePpm"} -> {"vfs"}
    [] pc \in {"logRow", "logFinished", "logError"} -> {"logSystem"}
    [] OTHER -> {}

\* Nobody gets a service that is not registered or is gone, although a failure
\* leaves the context with one that is gone: nothing runs after it.
ServicesLive ==
  /\ Gets \subseteq instance \cap alive
  /\ pc # "failed" => instance \subseteq alive
  /\ pc = "unregister" => instance # {}
=============================================================================
