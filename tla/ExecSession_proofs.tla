------------------------ MODULE ExecSession_proofs --------------------------
(***************************************************************************)
(* For any sizes of the queues and any traffic: a session that ends under  *)
(* a browser that has not left has shown it everything the shell printed.  *)
(***************************************************************************)
EXTENDS ExecSession, TLAPS

\* The chunks that wait in the pipe, and those the output pump holds.
InPipe == IF stdoutPipe THEN 1 ELSE 0
InHand == IF stdoutPump = "write" THEN 1 ELSE 0

\* No frame asks for a size that was not sent; no chunk is written twice.
Counted == asked <= sent /\ written + InHand + InPipe <= printed

\* The order in which a session is taken down, whoever is there to see it.
Teardown ==
  /\ ~stdoutOpen => execDone /\ ~stdoutPipe
  /\ serve # "exec" => execDone
  /\ serve = "returned" => stdoutPump = "done"

\* While the browser is there nothing cancels the session before its end, no
\* chunk is given up, and the output pump stops only at the end of the output.
NothingLost ==
  client = "open" =>
    /\ cancelled => serve = "returned"
    /\ execDone => ~stdoutPipe
    /\ stdoutPump = "done" => ~stdoutOpen
    /\ printed = written + InHand + InPipe

IInv == TypeOK /\ Counted /\ Teardown /\ NothingLost

-----------------------------------------------------------------------------
\* A session begins with nothing printed and nothing taken down.
LEMMA InitInv == Init => IInv
<1> SUFFICES ASSUME Init PROVE IInv
  OBVIOUS
<1>1. TypeOK
  <2>1. frames \in Seq(0..MaxFrames) /\ resizeCh \in Seq(1..MaxFrames) /\ Len(resizeCh) <= 1
    BY DEF Init
  <2>2. printed \in 0..MaxChunks /\ written \in 0..printed /\ got \in 0..written
    BY ExecSessionAssumption DEF Init
  <2>3. /\ sent \in 0..MaxFrames /\ asked \in 0..MaxFrames /\ size \in 0..MaxFrames
        /\ fwdQueue \in 0..FwdCap
    BY ExecSessionAssumption DEF Init
  <2> QED  BY <2>1, <2>2, <2>3, Zenon DEF Init, TypeOK
<1> QED  BY <1>1 DEF Init, IInv, Counted, Teardown, NothingLost, InHand, InPipe

\* What the browser does.
LEMMA BrowserInv == IInv /\ Browser => IInv'
<1> SUFFICES ASSUME IInv, Browser PROVE IInv'
  OBVIOUS
<1> USE ExecSessionAssumption DEF IInv
<1>1. CASE ClientSends
  <2>1. (asked <= sent)' /\ sent' \in 0..MaxFrames /\ asked' \in 0..MaxFrames
    BY <1>1 DEF ClientSends, TypeOK, Counted
  <2>2. frames' \in Seq(0..MaxFrames)
    <3>1. 0 \in 0..MaxFrames /\ asked + 1 \in 0..MaxFrames
      BY <1>1 DEF ClientSends, TypeOK, Counted
    <3>2. \A n \in 0..MaxFrames : Append(frames, n) \in Seq(0..MaxFrames)
      BY DEF TypeOK
    <3> QED  BY <1>1, <3>1, <3>2 DEF ClientSends
  <2>3. TypeOK'
    BY <1>1, <2>1, <2>2 DEF ClientSends, TypeOK, output
  <2> QED  BY <1>1, <2>1, <2>3 DEF ClientSends, Counted, Teardown, NothingLost, InHand,
                             InPipe, output
<1>2. CASE ClientReads
  BY <1>2 DEF ClientReads, TypeOK, Counted, Teardown, NothingLost, InHand, InPipe, input
<1>3. CASE ClientLeaves
  BY <1>3 DEF ClientLeaves, TypeOK, Counted, Teardown, NothingLost, InHand, InPipe,
              input, output
<1> QED  BY <1>1, <1>2, <1>3 DEF Browser

\* What happens in the pod.
LEMMA PodInv == IInv /\ Pod => IInv'
<1> SUFFICES ASSUME IInv, Pod PROVE IInv'
  OBVIOUS
<1> USE ExecSessionAssumption DEF IInv
<1>1. CASE ShellPrints
  <2>1. TypeOK'
    BY <1>1 DEF ShellPrints, ExecRuns, TypeOK, input
  <2>2. Counted' /\ NothingLost'
    BY <1>1 DEF ShellPrints, ExecRuns, TypeOK, Counted, NothingLost, InHand, InPipe, input
  <2> QED  BY <1>1, <2>1, <2>2 DEF ShellPrints, ExecRuns, Teardown
<1>2. CASE ShellReads
  BY <1>2 DEF ShellReads, TypeOK, Counted, Teardown, NothingLost, InHand, InPipe, output
<1>3. CASE TerminalResizes
  <2>1. TypeOK'
    BY <1>3 DEF TerminalResizes, TypeOK, output
  <2> QED  BY <1>3, <2>1 DEF TerminalResizes, Counted, Teardown, NothingLost, InHand,
                             InPipe, output
<1>4. CASE ShellExits
  BY <1>4 DEF ShellExits, TypeOK, Counted, Teardown, NothingLost, InHand, InPipe,
              input, output
<1> QED  BY <1>1, <1>2, <1>3, <1>4 DEF Pod

\* What the relay's goroutines do.
LEMMA RelayInv == IInv /\ Relay => IInv'
<1> SUFFICES ASSUME IInv, Relay PROVE IInv'
  OBVIOUS
<1> USE ExecSessionAssumption DEF IInv
\* Exec returns to a browser that is there only when the pipe is empty.
<1>1. CASE ExecReturns
  <2>1. TypeOK'
    BY <1>1 DEF ExecReturns, TypeOK, input, output
  <2>2. Counted'
    BY <1>1 DEF ExecReturns, TypeOK, Counted, InHand, InPipe, input, output
  <2>3. Teardown'
    BY <1>1 DEF ExecReturns, TypeOK, Teardown, input, output
  <2>4. NothingLost'
    BY <1>1 DEF ExecReturns, TypeOK, Counted, Teardown, NothingLost, InHand, InPipe, input, output
  <2> QED  BY <2>1, <2>2, <2>3, <2>4
<1>2. CASE CloseStdout
  <2>1. TypeOK'
    BY <1>2 DEF CloseStdout, TypeOK, input
  <2>2. Counted'
    BY <1>2 DEF CloseStdout, TypeOK, Counted, InHand, InPipe, input
  <2>3. Teardown'
    BY <1>2 DEF CloseStdout, TypeOK, Teardown, input
  <2>4. NothingLost'
    BY <1>2 DEF CloseStdout, TypeOK, Counted, Teardown, NothingLost, InHand, InPipe, input
  <2> QED  BY <2>1, <2>2, <2>3, <2>4
<1>3. CASE ReadStdout
  <2>1. TypeOK'
    BY <1>3 DEF ReadStdout, TypeOK, input
  <2>2. Counted'
    BY <1>3 DEF ReadStdout, TypeOK, Counted, InHand, InPipe, input
  <2>3. Teardown'
    BY <1>3 DEF ReadStdout, TypeOK, Teardown, input
  <2>4. NothingLost'
    BY <1>3 DEF ReadStdout, TypeOK, Counted, Teardown, NothingLost, InHand, InPipe, input
  <2> QED  BY <2>1, <2>2, <2>3, <2>4
\* The write fails only with a browser that has left, or after the end.
<1>4. CASE WriteOutput
  <2>1. TypeOK'
    BY <1>4 DEF WriteOutput, TypeOK, Counted, InHand, InPipe, input
  <2>2. Counted'
    BY <1>4 DEF WriteOutput, TypeOK, Counted, InHand, InPipe, input
  <2>3. Teardown'
    BY <1>4 DEF WriteOutput, TypeOK, Teardown, input
  <2>4. NothingLost'
    BY <1>4 DEF WriteOutput, TypeOK, Counted, Teardown, NothingLost, InHand, InPipe, input
  <2> QED  BY <2>1, <2>2, <2>3, <2>4
<1>5. CASE Send
  <2>1. TypeOK'
    BY <1>5 DEF Send, TypeOK, input
  <2>2. Counted'
    BY <1>5 DEF Send, TypeOK, Counted, InHand, InPipe, input
  <2>3. Teardown'
    BY <1>5 DEF Send, TypeOK, Teardown, input
  <2>4. NothingLost'
    BY <1>5 DEF Send, TypeOK, Counted, Teardown, NothingLost, InHand, InPipe, input
  <2> QED  BY <2>1, <2>2, <2>3, <2>4
<1>6. CASE ReadFrame
  <2>1. Head(frames) \in 0..MaxFrames /\ Tail(frames) \in Seq(0..MaxFrames)
    BY <1>6 DEF ReadFrame, TypeOK
  <2>2. resizeCh' \in Seq(1..MaxFrames) /\ Len(resizeCh') <= 1
    <3>1. CASE Head(frames) # 0 /\ resizeCh = <<>>
      <4>1. resizeCh' = <<Head(frames)>> /\ Head(frames) \in 1..MaxFrames
        BY <1>6, <2>1, <3>1 DEF ReadFrame
      <4> QED  BY <4>1
    <3>2. CASE ~(Head(frames) # 0 /\ resizeCh = <<>>)
      BY <1>6, <3>2 DEF ReadFrame, TypeOK
    <3> QED  BY <3>1, <3>2
  <2>3. TypeOK'
    BY <1>6, <2>1, <2>2 DEF ReadFrame, TypeOK, output
  <2> QED  BY <1>6, <2>3 DEF ReadFrame, Counted, Teardown, NothingLost, InHand, InPipe,
                             output
<1>7. CASE StopReading
  BY <1>7 DEF StopReading, TypeOK, Counted, Teardown, NothingLost, InHand, InPipe, output
<1>8. CASE ExecEnded
  BY <1>8 DEF ExecEnded, TypeOK, Counted, Teardown, NothingLost, InHand, InPipe,
              input, output
<1>9. CASE ServeReturns
  BY <1>9 DEF ServeReturns, TypeOK, Counted, Teardown, NothingLost, InHand, InPipe,
              input, output
<1> QED  BY <1>1, <1>2, <1>3, <1>4, <1>5, <1>6, <1>7, <1>8, <1>9 DEF Relay

\* Every step of browser, pod, relay and forwarder keeps the invariant.
LEMMA NextInv == IInv /\ [Next]_vars => IInv'
<1> SUFFICES ASSUME IInv, [Next]_vars PROVE IInv'
  OBVIOUS
<1>1. CASE Forward
  BY <1>1, ExecSessionAssumption DEF Forward, IInv, TypeOK, Counted, Teardown,
     NothingLost, InHand, InPipe, input
<1>2. CASE UNCHANGED vars
  BY <1>2 DEF vars, input, output, IInv, TypeOK, Counted, Teardown, NothingLost,
     InHand, InPipe
<1> QED  BY <1>1, <1>2, BrowserInv, PodInv, RelayInv DEF Next

\* The invariant, of which type and delivery are parts, holds throughout.
LEMMA InvariantHolds == Spec => []IInv
BY InitInv, NextInv, PTL DEF Spec

\* Every variable of a session stays in its type: never more than one size
\* waits in the channel, never more written than printed.
THEOREM TypeCorrect == Spec => []TypeOK
<1>1. IInv => TypeOK
  BY DEF IInv
<1> QED  BY <1>1, InvariantHolds, PTL

\* The end of the output is delivered (backend.go's <-stdoutDone): when Serve
\* has returned and the browser has not left, every chunk was written to it.
THEOREM LastOutputDeliveredHolds == Spec => []LastOutputDelivered
<1>1. IInv => LastOutputDelivered
  BY DEF IInv, TypeOK, Teardown, NothingLost, LastOutputDelivered, InHand, InPipe
<1> QED  BY <1>1, InvariantHolds, PTL
=============================================================================
