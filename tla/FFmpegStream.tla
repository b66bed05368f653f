---------------------------- MODULE FFmpegStream ----------------------------
(***************************************************************************)
(* A Stream of gumbleffmpeg: goroutines of the program that call Play,     *)
(* Pause, Stop and Wait, the ffmpeg command, and the process goroutines    *)
(* that read its output and send it to the server, one for each Play that  *)
(* starts or resumes the stream.                                           *)
(*                                                                         *)
(* What the code does while it holds the stream's mutex is one step: it    *)
(* waits for nothing there but the end of a command that it has killed.    *)
(* The goroutine of AudioOutgoing takes every buffer, so that a send to it *)
(* is no step of its own.                                                  *)
(***************************************************************************)
EXTENDS Integers, FiniteSets

CONSTANTS Players,   \* goroutines of the program
          Procs      \* process goroutines, which bounds the Play calls

ASSUME FiniteAssumption == IsFiniteSet(Players) /\ IsFiniteSet(Procs)

VARIABLES
  streamState,    \* Stream.state
  cmd,      \* the command: none, running, exited (end of media) or waited for
  source,   \* Source: idle, started or done
  wg,       \* the counter of the WaitGroup
  streamCall,     \* each caller: idle, sending on pause, or waiting for wg
  proc,     \* where each process goroutine is
  open      \* those whose channel of AudioOutgoing is open

streamVars == <<streamState, cmd, source, wg, streamCall, proc, open>>

StreamInit ==
  /\ streamState = "Initial" /\ cmd = "none" /\ source = "idle" /\ wg = 0
  /\ streamCall = [g \in Players |-> "idle"]
  /\ proc = [p \in Procs |-> "absent"] /\ open = {}

-----------------------------------------------------------------------------
(* The calls                                                               *)

Go(p) ==
  /\ proc[p] = "absent"
  /\ proc' = [proc EXCEPT ![p] = "starting"]

\* Faulty: the state is left as it was.
PlayPaused_Forgets(g, p) ==
  /\ streamCall[g] = "idle" /\ streamState = "Paused"
  /\ Go(p)
  /\ UNCHANGED <<streamState, cmd, source, wg, streamCall, open>>

PlayPaused(g, p) ==
  /\ streamCall[g] = "idle" /\ streamState = "Paused"
  /\ streamState' = "Playing"
  /\ Go(p)
  /\ UNCHANGED <<cmd, source, wg, streamCall, open>>

\* The fresh stream, when the source and the command start.
PlayFresh(g, p) ==
  /\ streamCall[g] = "idle" /\ streamState = "Initial"
  /\ source' = "started" /\ cmd' = "running" /\ wg' = wg + 1
  /\ streamState' = "Playing"
  /\ Go(p)
  /\ UNCHANGED <<streamCall, open>>

\* The command does not start after the source did.  A Play that fails in
\* another way leaves nothing behind.
PlayFails(g) ==
  /\ streamCall[g] = "idle" /\ streamState = "Initial"
  /\ source' = "done"
  /\ UNCHANGED <<streamState, cmd, wg, streamCall, proc, open>>

Pause(g) ==
  /\ streamCall[g] = "idle" /\ streamState = "Playing"
  /\ streamState' = "Paused"
  /\ streamCall' = [streamCall EXCEPT ![g] = "sending"]
  /\ UNCHANGED <<cmd, source, wg, proc, open>>

\* Faulty: the source is not told.
Cleanup_NotDone ==
  IF streamState = "Stopped"
  THEN UNCHANGED <<streamState, cmd, source, wg>>
  ELSE /\ cmd' = "waited" /\ streamState' = "Stopped" /\ wg' = wg - 1
       /\ UNCHANGED source

Cleanup ==
  IF streamState = "Stopped"
  THEN UNCHANGED <<streamState, cmd, source, wg>>
  ELSE /\ cmd' = "waited" /\ source' = "done"
       /\ streamState' = "Stopped" /\ wg' = wg - 1

Stop(g) ==
  /\ streamCall[g] = "idle" /\ streamState \in {"Playing", "Paused"}
  /\ Cleanup
  /\ streamCall' = [streamCall EXCEPT ![g] = "waiting"]
  /\ UNCHANGED <<proc, open>>

Wait(g) ==
  /\ streamCall[g] = "idle"
  /\ streamCall' = [streamCall EXCEPT ![g] = "waiting"]
  /\ UNCHANGED <<streamState, cmd, source, wg, proc, open>>

WaitReturns(g) ==
  /\ streamCall[g] = "waiting" /\ wg = 0
  /\ streamCall' = [streamCall EXCEPT ![g] = "idle"]
  /\ UNCHANGED <<streamState, cmd, source, wg, proc, open>>

-----------------------------------------------------------------------------
(* process                                                                 *)

\* The channel is made, and the loop entered.
ProcStarts(p) ==
  /\ proc[p] = "starting"
  /\ proc' = [proc EXCEPT ![p] = "select"] /\ open' = open \cup {p}
  /\ UNCHANGED <<streamState, cmd, source, wg, streamCall>>

\* The select takes the token of a caller of Pause, any of them.
ProcPaused(p, g) ==
  /\ proc[p] = "select" /\ streamCall[g] = "sending"
  /\ proc' = [proc EXCEPT ![p] = "returning"]
  /\ streamCall' = [streamCall EXCEPT ![g] = "idle"]
  /\ UNCHANGED <<streamState, cmd, source, wg, open>>

\* The select takes a tick.
ProcTicks(p) ==
  /\ proc[p] = "select"
  /\ proc' = [proc EXCEPT ![p] = "reading"]
  /\ UNCHANGED <<streamState, cmd, source, wg, streamCall, open>>

\* The frame is read and sent.
ProcReads(p) ==
  /\ proc[p] = "reading" /\ cmd = "running"
  /\ proc' = [proc EXCEPT ![p] = "select"]
  /\ UNCHANGED <<streamState, cmd, source, wg, streamCall, open>>

\* Faulty: the read error is ignored.
ProcFails_Ignores(p) ==
  /\ proc[p] = "reading" /\ cmd # "running"
  /\ proc' = [proc EXCEPT ![p] = "select"]
  /\ UNCHANGED <<streamState, cmd, source, wg, streamCall, open>>

ProcFails(p) ==
  /\ proc[p] = "reading" /\ cmd # "running"
  /\ proc' = [proc EXCEPT ![p] = "failed"]
  /\ UNCHANGED <<streamState, cmd, source, wg, streamCall, open>>

\* The goroutine gets the mutex.
ProcCleans(p) ==
  /\ proc[p] = "failed"
  /\ Cleanup
  /\ proc' = [proc EXCEPT ![p] = "returning"]
  /\ UNCHANGED <<streamCall, open>>

\* The deferred close.
ProcReturns(p) ==
  /\ proc[p] = "returning"
  /\ proc' = [proc EXCEPT ![p] = "ended"] /\ open' = open \ {p}
  /\ UNCHANGED <<streamState, cmd, source, wg, streamCall>>

\* The command has ended, and there is no whole frame of its output left.
CmdExits ==
  /\ cmd = "running"
  /\ cmd' = "exited"
  /\ UNCHANGED <<streamState, source, wg, streamCall, proc, open>>

ProcNext(p) ==
  \/ ProcStarts(p) \/ ProcTicks(p) \/ ProcReads(p) \/ ProcFails(p)
  \/ ProcCleans(p) \/ ProcReturns(p)
  \/ \E g \in Players : ProcPaused(p, g)

StreamNext ==
  \/ \E g \in Players, p \in Procs : PlayPaused(g, p) \/ PlayFresh(g, p)
  \/ \E g \in Players : PlayFails(g) \/ Pause(g) \/ Stop(g) \/ Wait(g) \/ WaitReturns(g)
  \/ \E p \in Procs : ProcNext(p)
  \/ CmdExits

StreamSpec == StreamInit /\ [][StreamNext]_streamVars

(***************************************************************************)
(* The process goroutines and the callers are scheduled, and the command   *)
(* writes a frame or ends when a goroutine reads.  A goroutine that comes  *)
(* to its select again and again takes the token of a caller of Pause at   *)
(* some time: no tick is due when it has just handled one.                 *)
(***************************************************************************)
StreamFairness ==
  /\ \A p \in Procs :
       /\ WF_streamVars(ProcStarts(p)) /\ WF_streamVars(ProcTicks(p))
       /\ WF_streamVars(ProcReads(p)) /\ WF_streamVars(ProcFails(p))
       /\ WF_streamVars(ProcCleans(p)) /\ WF_streamVars(ProcReturns(p))
  /\ \A g \in Players :
       /\ SF_streamVars(\E p \in Procs : ProcPaused(p, g))
       /\ WF_streamVars(WaitReturns(g))

StreamFairSpec == StreamSpec /\ StreamFairness

-----------------------------------------------------------------------------
StreamTypeOK ==
  /\ streamState \in {"Initial", "Playing", "Paused", "Stopped"}
  /\ cmd \in {"none", "running", "exited", "waited"}
  /\ source \in {"idle", "started", "done"}
  /\ wg \in {0, 1}
  /\ streamCall \in [Players -> {"idle", "sending", "waiting"}]
  /\ proc \in [Procs -> {"absent", "starting", "select", "reading", "failed",
                        "returning", "ended"}]
  /\ open \subseteq Procs

Live == {p \in Procs : proc[p] \in {"starting", "select", "reading", "failed"}}
Pausing == {g \in Players : streamCall[g] = "sending"}

(***************************************************************************)
(* Until the stream is stopped there is a process goroutine for each       *)
(* caller of Pause whose token has not been taken and, while it plays, one *)
(* more.  Pause sets the state before its token is taken (stream.go:125),  *)
(* so that the next Play starts a goroutine while the last one still       *)
(* runs, and either of them may take the token: what plays is the number   *)
(* that is left.                                                           *)
(***************************************************************************)
OneForEachPause ==
  streamState # "Stopped" =>
    Cardinality(Live) = Cardinality(Pausing) + IF streamState = "Playing" THEN 1 ELSE 0

(***************************************************************************)
(* The command and the source are released exactly once, by Stop or by any *)
(* of the goroutines that meet the end of the media, and the WaitGroup is  *)
(* down exactly when they have been (stream.go:192): Wait neither returns  *)
(* while the command runs nor panics.                                      *)
(***************************************************************************)
ReleasedOnce ==
  LET active == streamState \in {"Playing", "Paused"} IN
  /\ wg = IF active THEN 1 ELSE 0
  /\ active <=> source = "started"
  /\ active <=> cmd \in {"running", "exited"}

(***************************************************************************)
(* A stream that plays notices the end of its media (stream.go:173), so    *)
(* that Wait returns, however often it was paused and resumed before;      *)
(* Pause returns, unless the stream is stopped first; and once it is       *)
(* stopped all its process goroutines end and close their channels, none   *)
(* being left in a read or at the mutex.                                   *)
(***************************************************************************)
ComesToAnEnd ==
  /\ streamState = "Playing" /\ cmd = "exited" ~> streamState # "Playing"
  /\ \A g \in Players : streamCall[g] = "sending" ~> streamCall[g] = "idle" \/ streamState = "Stopped"
  /\ streamState = "Stopped" ~> open = {} /\ \A p \in Procs : proc[p] \in {"absent", "ended"}
=============================================================================
