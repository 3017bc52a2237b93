---------------------------- MODULE ExecSession -----------------------------
(***************************************************************************)
(* One terminal session of relay-exec: exec.Backend.Serve and its three    *)
(* goroutines, between the browser's WebSocket and the shell that kubectl  *)
(* exec runs in the pod. Both pipes are unbuffered: a write to one waits   *)
(* for its reader. A keystroke stands for a frame of input, a chunk of     *)
(* output for one read of at most 32 KiB. Copies of the output go to       *)
(* relay-grader through the Forwarder's queue.                             *)
(***************************************************************************)
EXTENDS Naturals, Sequences

CONSTANTS
  FwdCap,      \* forwarderChanCapacity
  WireCap,     \* chunks the connection to the browser holds unread
  MaxFrames,   \* bound: frames the browser sends
  MaxChunks    \* bound: chunks the shell prints

ASSUME ExecSessionAssumption ==
  /\ FwdCap \in Nat /\ WireCap \in Nat \ {0}
  /\ MaxFrames \in Nat /\ MaxChunks \in Nat

VARIABLES
  client,      \* the browser's end of the WebSocket
  frames,      \* frames sent and not read: 0 a keystroke, n > 0 the n-th size
  sent, asked, \* how many frames were sent; the last size asked for
  stdinPump,   \* WebSocket -> stdin: at conn.Read, in stdinW.Write, or done
  resizeCh,    \* the channel of sizes, of capacity 1
  size,        \* the size the terminal has
  shell,       \* what runs in the pod
  printed,     \* chunks of output so far
  stdoutPipe,  \* whether a chunk waits in stdoutW.Write
  stdoutOpen,  \* until stdoutW.Close
  stdoutPump,  \* stdout -> WebSocket: at stdoutR.Read, conn.Write, Send, or done
  written,     \* chunks written to the WebSocket
  got,         \* chunks the browser has read
  fwdQueue,    \* copies queued for relay-grader
  execDone,    \* Exec has returned
  cancelled,   \* the session's context
  serve        \* Serve: waits for execDone, for stdoutDone, or has returned

input   == <<frames, sent, asked, stdinPump, resizeCh, size>>
output  == <<printed, stdoutPipe, stdoutOpen, stdoutPump, written, got, fwdQueue>>
vars    == <<client, input, shell, output, execDone, cancelled, serve>>

TypeOK ==
  /\ client \in {"open", "gone"}
  /\ frames \in Seq(0..MaxFrames) /\ sent \in 0..MaxFrames /\ asked \in 0..MaxFrames
  /\ stdinPump \in {"read", "write", "done"}
  /\ resizeCh \in Seq(1..MaxFrames) /\ Len(resizeCh) <= 1
  /\ size \in 0..MaxFrames
  /\ shell \in {"running", "exited"}
  /\ printed \in 0..MaxChunks /\ written \in 0..printed /\ got \in 0..written
  /\ stdoutPipe \in BOOLEAN /\ stdoutOpen \in BOOLEAN
  /\ stdoutPump \in {"read", "write", "send", "done"}
  /\ fwdQueue \in 0..FwdCap
  /\ execDone \in BOOLEAN /\ cancelled \in BOOLEAN
  /\ serve \in {"exec", "stdout", "returned"}

Init ==
  /\ client = "open"
  /\ frames = <<>> /\ sent = 0 /\ asked = 0
  /\ stdinPump = "read" /\ resizeCh = <<>> /\ size = 0
  /\ shell = "running"
  /\ printed = 0 /\ stdoutPipe = FALSE /\ stdoutOpen = TRUE
  /\ stdoutPump = "read" /\ written = 0 /\ got = 0 /\ fwdQueue = 0
  /\ execDone = FALSE /\ cancelled = FALSE /\ serve = "exec"

-----------------------------------------------------------------------------
\* The browser.
ClientSends ==
  /\ client = "open" /\ sent < MaxFrames
  /\ sent' = sent + 1
  /\ \/ frames' = Append(frames, 0) /\ UNCHANGED asked
     \/ frames' = Append(frames, asked + 1) /\ asked' = asked + 1
  /\ UNCHANGED <<client, stdinPump, resizeCh, size, shell, output, execDone,
                 cancelled, serve>>

ClientReads ==
  /\ client = "open" /\ got < written
  /\ got' = got + 1
  /\ UNCHANGED <<client, input, shell, printed, stdoutPipe, stdoutOpen, stdoutPump,
                 written, fwdQueue, execDone, cancelled, serve>>

ClientLeaves ==
  /\ client = "open"
  /\ client' = "gone"
  /\ UNCHANGED <<input, shell, output, execDone, cancelled, serve>>

-----------------------------------------------------------------------------
\* Exec streams until the shell exits, all its output read, or the context is
\* cancelled.
ExecRuns == ~execDone /\ ~cancelled

ShellPrints ==
  /\ ExecRuns /\ shell = "running" /\ ~stdoutPipe
  /\ printed < MaxChunks
  /\ printed' = printed + 1 /\ stdoutPipe' = TRUE
  /\ UNCHANGED <<client, input, shell, stdoutOpen, stdoutPump, written, got,
                 fwdQueue, execDone, cancelled, serve>>

\* The stream takes the input as long as there is room between here and the
\* shell; when that is full the shell has to read, which it may never do.
ShellReads ==
  /\ ExecRuns /\ stdinPump = "write"
  /\ stdinPump' = "read"
  /\ UNCHANGED <<client, frames, sent, asked, resizeCh, size, shell, output,
                 execDone, cancelled, serve>>

TerminalResizes ==
  /\ ExecRuns /\ resizeCh # <<>>
  /\ size' = Head(resizeCh) /\ resizeCh' = <<>>
  /\ UNCHANGED <<client, frames, sent, asked, stdinPump, shell, output, execDone,
                 cancelled, serve>>

ShellExits ==
  /\ shell = "running"
  /\ shell' = "exited"
  /\ UNCHANGED <<client, input, output, execDone, cancelled, serve>>

ExecReturns ==
  /\ ~execDone
  /\ cancelled \/ (shell = "exited" /\ ~stdoutPipe)
  /\ execDone' = TRUE
  /\ UNCHANGED <<client, input, shell, output, cancelled, serve>>

\* Whatever still waits to be written is given up.
CloseStdout ==
  /\ execDone /\ stdoutOpen
  /\ stdoutOpen' = FALSE /\ stdoutPipe' = FALSE
  /\ UNCHANGED <<client, input, shell, printed, stdoutPump, written, got, fwdQueue,
                 execDone, cancelled, serve>>

-----------------------------------------------------------------------------
\* stdout -> WebSocket. Mutant: the end of the output is not noticed.
ReadOn ==
  /\ stdoutPump = "read"
  /\ stdoutPipe /\ stdoutPipe' = FALSE /\ stdoutPump' = "write"
  /\ UNCHANGED <<client, input, shell, printed, stdoutOpen, written, got, fwdQueue,
                 execDone, cancelled, serve>>

ReadStdout ==
  /\ stdoutPump = "read"
  /\ \/ stdoutPipe /\ stdoutPipe' = FALSE /\ stdoutPump' = "write"
     \/ ~stdoutOpen /\ stdoutPump' = "done" /\ UNCHANGED stdoutPipe
  /\ UNCHANGED <<client, input, shell, printed, stdoutOpen, written, got, fwdQueue,
                 execDone, cancelled, serve>>

\* The write waits for room. Once the browser is gone it fails, at the latest
\* when the connection has noticed.
WriteOutput ==
  /\ stdoutPump = "write"
  /\ \/ written < got + WireCap /\ written' = written + 1 /\ stdoutPump' = "send"
     \/ /\ cancelled \/ client = "gone"
        /\ stdoutPump' = "done" /\ UNCHANGED written
  /\ UNCHANGED <<client, input, shell, printed, stdoutPipe, stdoutOpen, got, fwdQueue,
                 execDone, cancelled, serve>>

\* Mutant: the copy waits for room in the queue.
SendWaits ==
  /\ stdoutPump = "send" /\ fwdQueue < FwdCap
  /\ stdoutPump' = "read"
  /\ fwdQueue' = fwdQueue + 1
  /\ UNCHANGED <<client, input, shell, printed, stdoutPipe, stdoutOpen, written, got,
                 execDone, cancelled, serve>>

\* A copy for relay-grader; dropped when the queue is full.
Send ==
  /\ stdoutPump = "send"
  /\ stdoutPump' = "read"
  /\ fwdQueue' = IF fwdQueue < FwdCap THEN fwdQueue + 1 ELSE fwdQueue
  /\ UNCHANGED <<client, input, shell, printed, stdoutPipe, stdoutOpen, written, got,
                 execDone, cancelled, serve>>

\* The Forwarder takes a message: it reaches relay-grader or is lost with the
\* connection.
Forward ==
  /\ fwdQueue > 0
  /\ fwdQueue' = fwdQueue - 1
  /\ UNCHANGED <<client, input, shell, printed, stdoutPipe, stdoutOpen, stdoutPump,
                 written, got, execDone, cancelled, serve>>

-----------------------------------------------------------------------------
\* WebSocket -> stdin. Mutant: sizes pile up.
ReadFrameUnbounded ==
  /\ stdinPump = "read" /\ frames # <<>> /\ ~cancelled
  /\ frames' = Tail(frames)
  /\ IF Head(frames) = 0
       THEN stdinPump' = "write" /\ UNCHANGED resizeCh
       ELSE resizeCh' = Append(resizeCh, Head(frames)) /\ UNCHANGED stdinPump
  /\ UNCHANGED <<client, sent, asked, size, shell, output, execDone, cancelled, serve>>

\* A size goes to the channel unless it is full, input to
\* the pipe.
ReadFrame ==
  /\ stdinPump = "read" /\ frames # <<>> /\ ~cancelled
  /\ frames' = Tail(frames)
  /\ IF Head(frames) = 0
       THEN stdinPump' = "write" /\ UNCHANGED resizeCh
       ELSE /\ resizeCh' = IF resizeCh = <<>> THEN <<Head(frames)>> ELSE resizeCh
            /\ UNCHANGED stdinPump
  /\ UNCHANGED <<client, sent, asked, size, shell, output, execDone, cancelled, serve>>

\* Mutant: the pump ends without cancelling the session.
StopQuietly ==
  /\ stdinPump = "read"
  /\ client = "gone" \/ cancelled
  /\ stdinPump' = "done"
  /\ UNCHANGED <<client, frames, sent, asked, resizeCh, size, shell, output, execDone,
                 cancelled, serve>>

\* conn.Read fails: the pump ends and cancels the session.
StopReading ==
  /\ stdinPump = "read"
  /\ client = "gone" \/ cancelled
  /\ stdinPump' = "done" /\ cancelled' = TRUE
  /\ UNCHANGED <<client, frames, sent, asked, resizeCh, size, shell, output, execDone,
                 serve>>

-----------------------------------------------------------------------------
\* Serve itself.
ExecEnded ==
  /\ serve = "exec" /\ execDone
  /\ serve' = "stdout"
  /\ UNCHANGED <<client, input, shell, output, execDone, cancelled>>

\* Mutant: Serve does not wait for the output pump.
ReturnsAtOnce ==
  /\ serve = "stdout"
  /\ serve' = "returned" /\ cancelled' = TRUE
  /\ UNCHANGED <<client, input, shell, output, execDone>>

ServeReturns ==
  /\ serve = "stdout" /\ stdoutPump = "done"
  /\ serve' = "returned" /\ cancelled' = TRUE
  /\ UNCHANGED <<client, input, shell, output, execDone>>

Browser == ClientSends \/ ClientReads \/ ClientLeaves
Pod     == ShellPrints \/ ShellReads \/ TerminalResizes \/ ShellExits
Relay   == \/ ExecReturns \/ CloseStdout \/ ReadStdout \/ WriteOutput \/ Send
           \/ ReadFrame \/ StopReading \/ ExecEnded \/ ServeReturns

Next == Browser \/ Pod \/ Relay \/ Forward

Spec == Init /\ [][Next]_vars

\* The relay's goroutines run. Nothing is assumed of the browser, of the shell
\* or of relay-grader.
Fairness ==
  /\ WF_vars(ExecReturns) /\ WF_vars(CloseStdout) /\ WF_vars(ReadStdout)
  /\ WF_vars(WriteOutput) /\ WF_vars(Send)
  /\ WF_vars(ReadFrame) /\ WF_vars(StopReading)
  /\ WF_vars(ExecEnded) /\ WF_vars(ServeReturns)

FairSpec == Spec /\ Fairness

-----------------------------------------------------------------------------
\* Safety. The last words of a shell that exits reach a browser that stays:
\* Serve returns only after the output pump has drained the pipe.
LastOutputDelivered == serve = "returned" /\ client = "open" => written = printed

\* The browser, as long as it is there, catches up with the output again and
\* again; the input is taken in the end. No deadline in the code sees to either.
BrowserReads == []<>(got = written \/ client = "gone")
InputIsTaken == []<>(stdinPump # "write")

\* Liveness. Whatever relay-grader does, what the shell prints reaches a browser
\* that reads, unless it leaves (Send never blocks).
OutputReachesClient ==
  BrowserReads =>
    \A n \in 1..MaxChunks : printed = n ~> written >= n \/ client = "gone"

\* Liveness. When the shell exits and the browser stays and reads, Serve returns:
\* however much output there is still to show, and whatever input the shell left
\* unread (backend.go:66, 106).
OnlyStallHoldsSession ==
  BrowserReads => (shell = "exited" ~> serve = "returned" \/ client = "gone")

\* Liveness. "WS disconnect cancels the exec context", backend.go:81: nothing but
\* input that is never taken keeps it from doing so (backend.go:100).
OnlyInputHoldsSession == InputIsTaken => (client = "gone" ~> serve = "returned")

\* What that comment says without a condition.
DisconnectEndsSession == client = "gone" ~> serve = "returned"

\* Safety. relay's README: "only the last resize in a burst applies". Once a
\* burst has gone through, the terminal has the size last asked for.
LastResizeApplies ==
  frames = <<>> /\ resizeCh = <<>> /\ stdinPump = "read" => size = asked
=============================================================================
