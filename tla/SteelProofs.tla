---------------------------- MODULE SteelProofs ----------------------------
(* The proofs about SteelBulk, for any clients, number of attempts and     *)
(* bounds: a call is answered by a report of its own, a channel said to be *)
(* stored is the device's, and the jog word keeps both halves.             *)
EXTENDS SteelBulk, TLAPS

(* A client that asks, sends or waits for an answer has the mutex, and it  *)
(* is the only one.                                                        *)
Holds(c) == pc[c] \in {"ask", "wait", "copy"} \/ (pc[c] = "send" /\ op[c].phase # "set")
MutexOK == \A c \in Client : mutex = c <=> Holds(c)

(* What a call sends, and in which phases, follows from its kind.          *)
Shaped(o) ==
  /\ o.kind = "chan" <=> o.command.to = "chan"
  /\ o.kind \in JogKinds <=> o.command.to = "jog"
  /\ o.kind \in JogKinds => o.phase = "set"
  /\ o.phase \in {"serial", "verify"} => o.kind = "chan"
ShapeOK ==
  \A c \in Client :
    /\ Shaped(op[c])
    /\ pc[c] = "idle" => op[c] = NoOp
    /\ pc[c] \in {"down", "ask", "wait", "copy"} => op[c].phase # "set"

(* Until an attempt ends without an answer, the mark and the completion    *)
(* belong to the holder of the mutex: it finds both clear, and one report  *)
(* turns the mark into one completion.                                     *)
Awaits(c) == pc[c] = "wait" \/ (pc[c] = "send" /\ op[c].phase # "set")
AskOK ==
  ~unanswered =>
    /\ mutex = NoOne => ~pending /\ done = 0
    /\ \A c \in Client : pc[c] = "ask" => ~pending /\ done = 0
    /\ \A c \in Client : Awaits(c) =>
         \/ pending /\ done = 0
         \/ ~pending /\ done = 1 /\ filled
    /\ \A c \in Client : pc[c] = "copy" => ~pending /\ done = 0 /\ filled

(* While a call that sets the channel meets no other, the device's channel *)
(* can only change to the call's own; so a report sent since it began that *)
(* shows its channel shows the device's.                                   *)
OlderOK == older <= Len(wire)
Flown(command, chan) == command.to = "chan" => command.chan = chan
Shows(chan) ==
  /\ \A command \in flying : Flown(command, chan)
  /\ \A i \in 1..Len(wire) : i > older /\ wire[i].chan = chan => device.chan = chan
  /\ ~data_old /\ bulk_data.chan = chan => device.chan = chan
ChanOK ==
  ~chan_raced =>
    /\ \A c, d \in Client : op[c].kind = "chan" /\ op[d].kind = "chan" => c = d
    /\ \A c \in Client : op[c].kind = "chan" => said_chan = {} /\ Shows(op[c].command.chan)
    /\ \A command \in flying, chan \in said_chan : Flown(command, chan)
    /\ said_chan \subseteq {device.chan}

(* Until a jog call fails, overlaps with another or builds on an old word, *)
(* the device has what the calls asked, none of their commands is left in  *)
(* the URB, and a call under way keeps the half that it does not set.      *)
JogOK ==
  ~jog_broken /\ ~jog_rushed =>
    /\ device.jog = asked_jog
    /\ \A command \in flying : command.to # "jog"
    /\ \A c, d \in Client : op[c].kind \in JogKinds /\ op[d].kind \in JogKinds => c = d
    /\ \A c \in Client : op[c].kind \in JogKinds =>
         op[c].command.jog \ {op[c].kind} = device.jog \ {op[c].kind}

SteelInv == MutexOK /\ ShapeOK /\ AskOK /\ AnswerFromThisCall /\ OlderOK /\ ChanOK /\ JogOK
-----------------------------------------------------------------------------
(* What the sends of the device do.                                        *)
(* A report that is sent goes behind those on the wire, or is lost.        *)
LEMMA SentBehind ==
  ASSUME wire \in Seq(Report), Len(wire) <= MaxWire, NEW r \in Report
  PROVE  /\ Sent(r) \in Seq(Report) /\ Len(Sent(r)) <= MaxWire
         /\ Len(wire) <= Len(Sent(r))
         /\ \A i \in 1..Len(wire) : Sent(r)[i] = wire[i]
         /\ \A i \in 1..Len(Sent(r)) : i > Len(wire) => Sent(r)[i] = r
BY DEF Sent, MaxWire

(* What a command does to the device.                                      *)
LEMMA AfterCommand ==
  ASSUME NEW d \in Report, NEW command \in Command
  PROVE  /\ After(d, command) \in Report
         /\ After(d, command).jog = IF command.to = "jog" THEN command.jog ELSE d.jog
         /\ After(d, command).chan = IF command.to = "chan" THEN command.chan ELSE d.chan
BY DEF After, Report, Command

(* What the device sends when it takes a command is its state after it.    *)
Tells ==
  /\ device' \in Report
  /\ wire' \in Seq(Report) /\ Len(wire') <= MaxWire /\ Len(wire) <= Len(wire')
  /\ \A i \in 1..Len(wire) : wire'[i] = wire[i]
  /\ \A i \in 1..Len(wire') : i > Len(wire) => wire'[i].chan = device'.chan

(* The device takes a command: its state changes as the command says.      *)
LEMMA TakenTells ==
  ASSUME TypeOK, NEW command \in Command, Takes(command)
  PROVE  /\ Tells
         /\ device'.jog = IF command.to = "jog" THEN command.jog ELSE device.jog
         /\ device'.chan = IF command.to = "chan" THEN command.chan ELSE device.chan
<1>1. device \in Report /\ wire \in Seq(Report) /\ Len(wire) <= MaxWire
  BY DEF TypeOK
<1>2. device' = After(device, command) /\ device' \in Report
  BY <1>1, AfterCommand DEF Takes
<1>3. /\ device'.jog = IF command.to = "jog" THEN command.jog ELSE device.jog
      /\ device'.chan = IF command.to = "chan" THEN command.chan ELSE device.chan
  BY <1>1, <1>2, AfterCommand
<1>4. \/ wire' = wire
      \/ \E r \in Report : r.chan = device'.chan /\ wire' = Sent(r)
  <2>1. CASE command.to = "report" /\ mode = "normal"
    BY <2>1, <1>2 DEF Takes, Answered
  <2>2. CASE command.to = "exit"
    <3>1. \A g \in BOOLEAN : LET r == [device EXCEPT !.good = g]
                             IN  r \in Report /\ r.chan = device.chan
      BY <1>1 DEF Report
    <3>2. PICK g \in BOOLEAN : wire' = Sent([device EXCEPT !.good = g])
      BY <2>2 DEF Takes, Answered
    <3>  QED  BY <2>2, <3>1, <3>2, <1>3
  <2>3. CASE ~(command.to = "report" /\ mode = "normal") /\ command.to # "exit"
    BY <2>3 DEF Takes, Answered
  <2>  QED  BY <2>1, <2>2, <2>3
<1>5. Tells
  <2>1. CASE wire' = wire
    BY <2>1, <1>1, <1>2 DEF Tells
  <2>2. CASE \E r \in Report : r.chan = device'.chan /\ wire' = Sent(r)
    BY <2>2, <1>1, <1>2, SentBehind DEF Tells
  <2>  QED  BY <2>1, <2>2, <1>4
<1>  QED  BY <1>3, <1>5

-----------------------------------------------------------------------------
(* The calls begin.                                                        *)
Began(c, kind, phase, command, label) ==
  /\ Begin(c, kind, phase, command, label)
  /\ Shaped([kind |-> kind, phase |-> phase, command |-> command, tries |-> 0, sends |-> 0])
  /\ kind \in JogKinds => command.jog \ {kind} = jog \ {kind}
  /\ label = IF phase = "set" THEN "send" ELSE "down"

(* A client whose call begins has one of the shapes that Shaped allows.    *)
LEMMA CallBegins ==
  ASSUME TypeOK, NEW c \in Client, IoctlSteel(c) \/ ProcSteel(c) \/ SteelSettings(c)
  PROVE  \E kind \in Kind, phase \in {"set", "serial", "verify", "get"},
            command \in Command, label \in {"send", "down"} :
              Began(c, kind, phase, command, label)
<1> jog \in JogWord
  BY DEF TypeOK
<1>1. ASSUME NEW to \in {"other", "report"}, BeginSet(c, "write", ToSend(to, {}, 1))
      PROVE  Began(c, "write", "set", ToSend(to, {}, 1), "send")
  BY <1>1 DEF Began, BeginSet, Shaped, ToSend, JogKinds
<1>2. ASSUME NEW kind \in JogKinds, NEW on \in SUBSET {kind},
             BeginSet(c, kind, ToSend("jog", (jog \ {kind}) \cup on, 1))
      PROVE  Began(c, kind, "set", ToSend("jog", (jog \ {kind}) \cup on, 1), "send")
  BY <1>2 DEF Began, BeginSet, Shaped, ToSend, JogKinds
<1>3. ASSUME NEW chan \in Channel, Begin(c, "chan", "serial", ToSend("chan", {}, chan), "down")
      PROVE  Began(c, "chan", "serial", ToSend("chan", {}, chan), "down")
  BY <1>3 DEF Began, Shaped, ToSend, JogKinds
<1>4. GetBulkData(c) => Began(c, "get", "get", ToSend("report", {}, 1), "down")
  BY DEF Began, GetBulkData, Shaped, ToSend, JogKinds
<1>5. ExitBootMode(c) => Began(c, "exit", "get", ToSend("exit", {}, 1), "down")
  BY DEF Began, ExitBootMode, Shaped, ToSend, JogKinds
<1>6. /\ \A to \in {"other", "report", "exit"} : ToSend(to, {}, 1) \in Command
      /\ \A chan \in Channel : ToSend("chan", {}, chan) \in Command
      /\ \A word \in JogWord : ToSend("jog", word, 1) \in Command
  BY DEF ToSend, Command, Channel, JogWord
<1>7. \A kind \in JogKinds : \A on \in SUBSET {kind} : (jog \ {kind}) \cup on \in JogWord
  BY DEF JogKinds, JogWord
<1>8. CASE \E to \in {"other", "report"} : BeginSet(c, "write", ToSend(to, {}, 1))
  BY <1>8, <1>1, <1>6 DEF Kind
<1>9. CASE \E kind \in JogKinds : \E on \in SUBSET {kind} :
             BeginSet(c, kind, ToSend("jog", (jog \ {kind}) \cup on, 1))
  <2>1. PICK kind \in JogKinds : \E on \in SUBSET {kind} :
               BeginSet(c, kind, ToSend("jog", (jog \ {kind}) \cup on, 1))
    BY <1>9
  <2>2. PICK on \in SUBSET {kind} :
               BeginSet(c, kind, ToSend("jog", (jog \ {kind}) \cup on, 1))
    BY <2>1
  <2>3. ToSend("jog", (jog \ {kind}) \cup on, 1) \in Command /\ kind \in Kind
    BY <1>6, <1>7 DEF Kind, JogKinds
  <2>  QED  BY <2>2, <2>3, <1>2
<1>10. CASE SetChannel(c)
  BY <1>10, <1>3, <1>6 DEF SetChannel, Kind
<1>11. CASE GetBulkData(c)
  BY <1>11, <1>4, <1>6 DEF Kind
<1>12. CASE ExitBootMode(c)
  BY <1>12, <1>5, <1>6 DEF Kind
<1>13. (SetLock(c) \/ SetSensitivity(c)) =>
         \E kind \in JogKinds : \E on \in SUBSET {kind} :
           BeginSet(c, kind, ToSend("jog", (jog \ {kind}) \cup on, 1))
  BY DEF SetLock, SetSensitivity, JogKinds
<1>14. (SetModeShiftState(c) \/ SetFxState(c) \/ SendBulkWrite(c) \/ RebootToBootMode(c)) =>
         \E to \in {"other", "report"} : BeginSet(c, "write", ToSend(to, {}, 1))
  BY DEF SetModeShiftState, SetFxState, SendBulkWrite, RebootToBootMode
<1>15. (\/ GetModeShiftState(c) \/ GetFxState(c) \/ GetJogParameters(c) \/ GetChannel(c)
        \/ GetSerialNumber(c) \/ GetFirmwareVersion(c)) => GetBulkData(c)
  BY DEF GetModeShiftState, GetFxState, GetJogParameters, GetChannel, GetSerialNumber,
         GetFirmwareVersion
<1>  QED
  BY <1>8, <1>9, <1>10, <1>11, <1>12, <1>13, <1>14, <1>15
  DEF IoctlSteel, ProcSteel, SteelSettings

-----------------------------------------------------------------------------
(* The command of a call, or a request for a report.                       *)
LEMMA CommandKnown ==
  ASSUME TypeOK, NEW c \in Client
  PROVE  /\ op[c] \in Op /\ pc[c] \in {"idle", "down", "ask", "send", "wait", "copy"}
         /\ CommandOf(c) \in Command
BY DEF TypeOK, CommandOf, ToSend, Command, Op, JogWord, Channel

(* The record of a client that is not in a call.                           *)
LEMMA NoOpTyped == NoOp \in Op /\ 0 \in 0..MaxRetry
<1>1. [to |-> "report", jog |-> {}, chan |-> 1] \in Command
  BY DEF Command, JogWord, Channel
<1>2. 0 \in 0..MaxRetry
  BY MaxRetryAssumption
<1>  QED  BY <1>1, <1>2 DEF NoOp, Op, Kind

(* The records that the calls' steps make.                                 *)
LEMMA OpChanged ==
  ASSUME NEW o \in Op, NEW n \in 0..MaxRetry, NEW k \in 0..MaxRetry
  PROVE  /\ [o EXCEPT !.sends = k] \in Op
         /\ [o EXCEPT !.tries = n, !.sends = k] \in Op
         /\ [o EXCEPT !.phase = "verify", !.tries = n] \in Op
         /\ [o EXCEPT !.phase = "set", !.sends = k] \in Op
<1>1. [o EXCEPT !.sends = k] \in Op
  BY DEF Op
<1>2. [o EXCEPT !.tries = n, !.sends = k] \in Op
  BY DEF Op
<1>3. [o EXCEPT !.phase = "verify", !.tries = n] \in Op
  BY DEF Op
<1>4. [o EXCEPT !.phase = "set", !.sends = k] \in Op
  BY DEF Op
<1>  QED  BY <1>1, <1>2, <1>3, <1>4


-----------------------------------------------------------------------------
(* What a step does to the call that takes it.                             *)
Label == {"idle", "down", "ask", "send", "wait", "copy"}
CallTyped == pc' \in [Client -> Label] /\ op' \in [Client -> Op]
Alone(c) ==
  /\ CallTyped
  /\ \A d \in Client : d # c => pc'[d] = pc[d] /\ op'[d] = op[d]
Ends(c) == pc'[c] = "idle" /\ op'[c] = NoOp
SameAs(c, phase) ==
  /\ op'[c].kind = op[c].kind /\ op'[c].command = op[c].command
  /\ op'[c].phase = phase
Same(c) == SameAs(c, op[c].phase)

(* The next attempt, or the end of the call.                               *)
Tries(c) ==
  \/ Ends(c) /\ mutex' = NoOne
  \/ Same(c) /\ pc'[c] = "ask" /\ mutex' = mutex
  \/ Same(c) /\ pc'[c] = "down" /\ mutex' = NoOne

(* The command has gone out.                                               *)
GoneOut(c) ==
  \/ op[c].phase # "set" /\ pc'[c] = "wait" /\ Same(c)
  \/ op[c].phase = "set" /\ op[c].kind = "chan" /\ pc'[c] = "down" /\ SameAs(c, "verify")
  \/ op[c].phase = "set" /\ Ends(c)

(* It has not: the send is tried again, given up, or the answer is.        *)
NotOut(c) ==
  \/ pc'[c] = pc[c] /\ Same(c) /\ mutex' = mutex /\ unanswered' = unanswered
  \/ op[c].phase = "set" /\ Ends(c) /\ mutex' = mutex /\ unanswered' = unanswered
  \/ op[c].phase # "set" /\ unanswered' = TRUE /\ Tries(c)

(* A call that returns is one that has not begun.                          *)
LEMMA ReturnEnds ==
  ASSUME TypeOK, NEW c \in Client, Return(c)
  PROVE  Alone(c) /\ Ends(c)
BY NoOpTyped DEF Return, Goto, Alone, CallTyped, Ends, TypeOK, Label

(* A step that only moves on leaves the call as it is.                     *)
LEMMA GotoMoves ==
  ASSUME TypeOK, NEW c \in Client, NEW label \in Label, Goto(c, label), UNCHANGED op
  PROVE  Alone(c) /\ pc'[c] = label /\ Same(c)
BY DEF Goto, Alone, CallTyped, Same, SameAs, TypeOK, Label

(* A step that moves on with a changed record.                             *)
LEMMA OpMoves ==
  ASSUME TypeOK, NEW c \in Client, NEW label \in Label, Goto(c, label),
         NEW o \in Op, op' = [op EXCEPT ![c] = o]
  PROVE  Alone(c) /\ pc'[c] = label /\ op'[c] = o
BY DEF Goto, Alone, CallTyped, TypeOK, Label

(* An attempt that has failed is followed by another or is the last.       *)
LEMMA NextTryMoves ==
  ASSUME TypeOK, NEW c \in Client, NextTry(c)
  PROVE  Alone(c) /\ Tries(c)
<1>1. op[c] \in Op
  BY CommandKnown
<1>2. CASE Retries(c)
  <2> DEFINE o == [op[c] EXCEPT !.tries = op[c].tries + 1, !.sends = 0]
             label == IF op[c].kind = "exit" THEN "down" ELSE "ask"
  <2>1. op[c].tries + 1 \in 0..MaxRetry /\ 0 \in 0..MaxRetry
    BY <1>1, <1>2, MaxRetryAssumption DEF Retries, Op
  <2>2. o \in Op
    BY <1>1, <2>1, OpChanged
  <2>3. o.kind = op[c].kind /\ o.command = op[c].command /\ o.phase = op[c].phase
    BY <1>1 DEF Op
  <2>4. op' = [op EXCEPT ![c] = o] /\ Goto(c, label)
    BY <1>2 DEF NextTry
  <2>7. label \in Label
    BY DEF Label
  <2>5. mutex' = IF op[c].kind = "exit" THEN NoOne ELSE mutex
    BY <1>2 DEF NextTry
  <2> HIDE DEF o, label
  <2>6. Alone(c) /\ pc'[c] = label /\ op'[c] = o
    BY <2>2, <2>4, <2>7, OpMoves
  <2>  QED  BY <2>3, <2>5, <2>6 DEF Tries, Same, SameAs, label
<1>3. CASE ~Retries(c)
  BY <1>3, ReturnEnds DEF NextTry, Tries
<1>  QED  BY <1>2, <1>3

(* What a call does after its command has gone out.                        *)
LEMMA SendDoneMoves ==
  ASSUME TypeOK, NEW c \in Client, SendDone(c)
  PROVE  Alone(c) /\ GoneOut(c)
<1>1. op[c] \in Op
  BY CommandKnown
<1>2. CASE op[c].phase # "set"
  BY <1>2, GotoMoves DEF SendDone, GoneOut, Label
<1>3. CASE op[c].phase = "set" /\ op[c].kind = "chan"
  <2> DEFINE o == [op[c] EXCEPT !.phase = "verify", !.tries = 0]
  <2>1. o \in Op
    BY <1>1, OpChanged, NoOpTyped
  <2>2. o.kind = op[c].kind /\ o.command = op[c].command /\ o.phase = "verify"
    BY <1>1 DEF Op
  <2>3. op' = [op EXCEPT ![c] = o] /\ Goto(c, "down") /\ "down" \in Label
    BY <1>3 DEF SendDone, Label
  <2> HIDE DEF o
  <2>4. Alone(c) /\ pc'[c] = "down" /\ op'[c] = o
    BY <2>1, <2>3, OpMoves
  <2>  QED  BY <1>3, <2>2, <2>4 DEF GoneOut, SameAs
<1>4. CASE op[c].phase = "set" /\ op[c].kind # "chan"
  BY <1>4, ReturnEnds DEF SendDone, GoneOut
<1>  QED  BY <1>2, <1>3, <1>4

(* What a call does after a send that failed.                              *)
LEMMA SendFailedMoves ==
  ASSUME TypeOK, NEW c \in Client, SendFailed(c)
  PROVE  /\ Alone(c) /\ NotOut(c)
         /\ jog_broken' = (jog_broken \/ IsJogSet(c))
<1>1. op[c] \in Op
  BY CommandKnown
<1>2. CASE op[c].sends + 1 < SendLimit(c) /\ Reaches(c)
  <2> DEFINE o == [op[c] EXCEPT !.sends = op[c].sends + 1]
  <2>1. op[c].sends + 1 \in 0..MaxRetry
    BY <1>1, <1>2, MaxRetryAssumption DEF Op, SendLimit
  <2>2. o \in Op
    BY <1>1, <2>1, OpChanged
  <2>3. o.kind = op[c].kind /\ o.command = op[c].command /\ o.phase = op[c].phase
    BY <1>1 DEF Op
  <2>4. op' = [op EXCEPT ![c] = o] /\ UNCHANGED <<pc, mutex, unanswered>>
    BY <1>2 DEF SendFailed
  <2> HIDE DEF o
  <2>5. Alone(c) /\ pc'[c] = pc[c] /\ op'[c] = o
    BY <2>2, <2>4 DEF Alone, CallTyped, TypeOK, Label
  <2>  QED  BY <2>3, <2>4, <2>5 DEF SendFailed, NotOut, Same, SameAs
<1>3. CASE ~(op[c].sends + 1 < SendLimit(c) /\ Reaches(c)) /\ op[c].phase = "set"
  BY <1>3, ReturnEnds DEF SendFailed, NotOut
<1>4. CASE ~(op[c].sends + 1 < SendLimit(c) /\ Reaches(c)) /\ op[c].phase # "set"
  BY <1>4, NextTryMoves DEF SendFailed, NotOut
<1>  QED  BY <1>2, <1>3, <1>4

(* The answer is copied: on to the setting, to another attempt, or back.   *)
Copied(c) ==
  \/ op[c].phase = "serial" /\ pc'[c] = "send" /\ SameAs(c, "set") /\ mutex' = NoOne
  \/ Tries(c)

LEMMA CopyMoves ==
  ASSUME TypeOK, NEW c \in Client, Copy(c)
  PROVE  Alone(c) /\ Copied(c)
<1>1. op[c] \in Op
  BY CommandKnown
<1>2. CASE op[c].phase = "serial"
  <2> DEFINE o == [op[c] EXCEPT !.phase = "set", !.sends = 0]
  <2>1. o \in Op
    BY <1>1, OpChanged, NoOpTyped
  <2>2. o.kind = op[c].kind /\ o.command = op[c].command /\ o.phase = "set"
    BY <1>1 DEF Op
  <2>3. /\ op' = [op EXCEPT ![c] = [op[c] EXCEPT !.phase = "set", !.sends = 0]]
        /\ Goto(c, "send") /\ mutex' = NoOne
    BY <1>2 DEF Copy
  <2>5. op' = [op EXCEPT ![c] = o] /\ "send" \in Label
    BY <2>3 DEF Label
  <2> HIDE DEF o
  <2>4. Alone(c) /\ pc'[c] = "send" /\ op'[c] = o
    BY <2>1, <2>3, <2>5, OpMoves
  <2>  QED  BY <1>2, <2>2, <2>3, <2>4 DEF Copied, SameAs
<1>3. CASE op[c].phase = "get" /\ op[c].kind = "exit" /\ ~bulk_data.good
  BY <1>3, NextTryMoves DEF Copy, Copied
<1>4. CASE op[c].phase # "serial" /\ ~(op[c].phase = "get" /\ op[c].kind = "exit" /\ ~bulk_data.good)
  BY <1>4, ReturnEnds DEF Copy, Copied, Tries
<1>  QED  BY <1>2, <1>3, <1>4

-----------------------------------------------------------------------------
(* Type correctness.                                                       *)
LEMMA TypeInit == Init => TypeOK
<1> SUFFICES ASSUME Init
             PROVE  TypeOK
  OBVIOUS
<1>1. device \in Report /\ bulk_data \in [chan : Channel, good : BOOLEAN] /\ jog \in JogWord
  BY DEF Init, Report, JogWord, Channel, Looked
<1>2. wire \in Seq(Report) /\ Len(wire) <= MaxWire /\ older \in 0..MaxWire
  BY DEF Init, MaxWire
<1>3. calls \in 0..MaxCalls /\ reports \in 0..MaxReports /\ failures \in 0..MaxFailures
  BY BoundAssumption DEF Init
<1>4. op \in [Client -> Op]
  BY NoOpTyped DEF Init
<1>5. asked_jog \in JogWord /\ said_chan \subseteq Channel
  BY DEF Init, JogWord
<1>  QED  BY <1>1, <1>2, <1>3, <1>4, <1>5 DEF Init, TypeOK

(* The variables other than those of the calls keep their types.           *)
LEMMA TypeStep == TypeOK /\ [Next]_vars => TypeOK'
<1> SUFFICES ASSUME TypeOK, [Next]_vars
             PROVE  TypeOK'
  OBVIOUS
<1> USE DEF outVars, askVars, countVars, histVars, chanVars
<1>1. ASSUME NEW c \in Client, IoctlSteel(c) \/ ProcSteel(c) \/ SteelSettings(c)
      PROVE  TypeOK'
  <2>1. PICK kind \in Kind, phase \in {"set", "serial", "verify", "get"},
             command \in Command, label \in {"send", "down"} :
               Began(c, kind, phase, command, label)
    BY <1>1, CallBegins
  <2>2. Begin(c, kind, phase, command, label)
    BY <2>1 DEF Began
  <2>3. [kind |-> kind, phase |-> phase, command |-> command, tries |-> 0, sends |-> 0] \in Op
    BY NoOpTyped DEF Op
  <2>4. calls' \in 0..MaxCalls
    BY <2>2, BoundAssumption DEF Begin, TypeOK
  <2>5. pc' \in [Client -> Label] /\ op' \in [Client -> Op]
    BY <2>2, <2>3 DEF Begin, TypeOK, Label
  <2>6. /\ older' \in 0..MaxWire /\ said_chan' \subseteq Channel
        /\ data_old' \in BOOLEAN /\ chan_raced' \in BOOLEAN
    <3>1. CASE kind = "chan"
      <4>1. chan_raced' \in BOOLEAN
        BY <2>2, <3>1 DEF Begin
      <4>2. older' \in 0..MaxWire
        BY <2>2, <3>1 DEF Begin, TypeOK, MaxWire
      <4>3. data_old' \in BOOLEAN /\ said_chan' \subseteq Channel
        BY <2>2, <3>1 DEF Begin
      <4>  QED  BY <4>1, <4>2, <4>3
    <3>2. CASE kind # "chan"
      BY <2>2, <3>2 DEF Begin, TypeOK
    <3>  QED  BY <3>1, <3>2
  <2>7. {jog_broken', jog_rushed'} \subseteq BOOLEAN
    BY <2>2 DEF Begin
  <2>  QED  BY <2>2, <2>4, <2>5, <2>6, <2>7 DEF Begin, TypeOK, Label
<1>2. ASSUME NEW c \in Client, Down(c)
      PROVE  TypeOK'
  <2>1. CallTyped
    BY <1>2, GotoMoves DEF Down, Alone, Label
  <2>  QED  BY <1>2, <2>1 DEF Down, TypeOK, CallTyped, Label
<1>3. ASSUME NEW c \in Client, Ask(c)
      PROVE  TypeOK'
  <2>1. [op[c] EXCEPT !.sends = 0] \in Op
    BY CommandKnown, OpChanged, NoOpTyped
  <2>2. op' = [op EXCEPT ![c] = [op[c] EXCEPT !.sends = 0]]
    BY <1>3 DEF Ask
  <2>3. CallTyped
    BY <1>3, <2>1, <2>2, OpMoves DEF Ask, Alone, Label
  <2>  QED  BY <1>3, <2>3 DEF Ask, TypeOK, CallTyped, Label
<1>4. ASSUME NEW c \in Client, SendOk(c)
      PROVE  TypeOK'
  <2>1. CallTyped
    BY <1>4, SendDoneMoves DEF SendOk, Alone
  <2>2. Tells
    BY <1>4, CommandKnown, TakenTells DEF SendOk
  <2>3. asked_jog' \in JogWord
    BY <1>4, CommandKnown DEF SendOk, TypeOK, Op, Command, JogWord
  <2>  QED  BY <1>4, <2>1, <2>2, <2>3 DEF SendOk, TypeOK, CallTyped, Label, Tells
<1>5. ASSUME NEW c \in Client, SendUnawaited(c)
      PROVE  TypeOK'
  <2>1. CallTyped
    BY <1>5, SendDoneMoves DEF SendUnawaited, Alone
  <2>  QED  BY <1>5, <2>1, CommandKnown DEF SendUnawaited, TypeOK, CallTyped, Label
<1>6. ASSUME NEW c \in Client, SendFailed(c)
      PROVE  /\ CallTyped
             /\ mutex' \in Client \cup {NoOne} /\ {unanswered', jog_broken'} \subseteq BOOLEAN
  BY <1>6, SendFailedMoves DEF Alone, NotOut, Tries, TypeOK
<1>7. ASSUME NEW c \in Client, SendFails(c)
      PROVE  TypeOK'
  <2>1. failures' \in 0..MaxFailures
    BY <1>7, BoundAssumption DEF SendFails, TypeOK
  <2>2. device' \in Report /\ wire' \in Seq(Report) /\ Len(wire') <= MaxWire
    BY <1>7, CommandKnown, TakenTells DEF SendFails, TypeOK, Tells
  <2>  QED  BY <1>7, <1>6, <2>1, <2>2 DEF SendFails, TypeOK, CallTyped, Label
<1>8. ASSUME NEW c \in Client, SendBusy(c)
      PROVE  TypeOK'
  BY <1>8, <1>6, CommandKnown DEF SendBusy, TypeOK, CallTyped, Label
<1>9. ASSUME NEW c \in Client, SendRefused(c)
      PROVE  TypeOK'
  BY <1>9, <1>6 DEF SendRefused, TypeOK, CallTyped, Label
<1>10. ASSUME NEW c \in Client, WaitDone(c)
       PROVE  TypeOK'
  <2>1. CallTyped
    BY <1>10, GotoMoves DEF WaitDone, Alone, Label
  <2>  QED  BY <1>10, <2>1 DEF WaitDone, TypeOK, CallTyped, Label
<1>11. ASSUME NEW c \in Client, WaitTimesOut(c)
       PROVE  TypeOK'
  <2>1. CallTyped /\ mutex' \in Client \cup {NoOne}
    BY <1>11, NextTryMoves DEF WaitTimesOut, Alone, Tries, TypeOK
  <2>2. failures' \in 0..MaxFailures
    BY <1>11, BoundAssumption DEF WaitTimesOut, TypeOK
  <2>  QED  BY <1>11, <2>1, <2>2 DEF WaitTimesOut, TypeOK, CallTyped, Label
<1>12. ASSUME NEW c \in Client, Copy(c)
       PROVE  TypeOK'
  <2>1. CallTyped /\ mutex' \in Client \cup {NoOne}
    BY <1>12, CopyMoves DEF Alone, Copied, Tries, TypeOK
  <2>2. said_chan' \subseteq Channel
    BY <1>12, CommandKnown DEF Copy, TypeOK, Op, Command
  <2>3. older' \in 0..MaxWire /\ data_old' \in BOOLEAN
    <3>1. CASE op[c].phase = "verify"
      <4>1. older' = 0
        BY <1>12, <3>1 DEF Copy
      <4>2. data_old' \in BOOLEAN
        BY <1>12, <3>1, Zenon DEF Copy
      <4>  QED  BY <4>1, <4>2 DEF MaxWire
    <3>2. CASE op[c].phase # "verify"
      BY <1>12, <3>2 DEF Copy, TypeOK
    <3>  QED  BY <3>1, <3>2
  <2>4. stale' \in BOOLEAN
    BY <1>12 DEF Copy
  <2>  QED  BY <1>12, <2>1, <2>2, <2>3, <2>4 DEF Copy, TypeOK, CallTyped, Label
<1>13. CASE Unasked
  <2>1. Sent(device) \in Seq(Report) /\ Len(Sent(device)) <= MaxWire
    BY SentBehind DEF TypeOK
  <2>2. reports' \in 0..MaxReports
    BY <1>13, BoundAssumption DEF Unasked, TypeOK
  <2>  QED  BY <1>13, <2>1, <2>2 DEF Unasked, TypeOK
<1>14. CASE LateTake
  <2>1. PICK command \in flying : Takes(command)
    BY <1>14 DEF LateTake
  <2>2. Tells
    BY <2>1, TakenTells DEF TypeOK
  <2>  QED  BY <1>14, <2>2 DEF LateTake, TypeOK, Tells
<1>15. CASE InComplete
  <2>1. wire' \in Seq(Report) /\ Len(wire') <= MaxWire /\ Head(wire) \in Report
    BY <1>15 DEF InComplete, TypeOK, MaxWire
  <2>2. jog' \in JogWord /\ Looked(Head(wire)) \in [chan : Channel, good : BOOLEAN]
    BY <1>15, <2>1 DEF InComplete, TypeOK, Looked, Report
  <2>3. older' \in 0..MaxWire
    BY <1>15 DEF InComplete, TypeOK, MaxWire
  <2>4. /\ bulk_data' \in [chan : Channel, good : BOOLEAN]
        /\ pending' \in BOOLEAN /\ filled' \in BOOLEAN /\ done' \in Nat
    <3>1. CASE Answers
      <4>1. bulk_data' = Looked(Head(wire)) /\ done' = done + 1
        BY <1>15, <3>1 DEF InComplete
      <4>2. pending' \in BOOLEAN /\ filled' \in BOOLEAN
        BY <1>15, <3>1, Zenon DEF InComplete
      <4>  QED  BY <2>2, <4>1, <4>2 DEF TypeOK
    <3>2. CASE ~Answers
      BY <1>15, <3>2 DEF InComplete, TypeOK
    <3>  QED  BY <3>1, <3>2
  <2>5. data_old' \in BOOLEAN
    <3>1. CASE Answers
      BY <1>15, <3>1 DEF InComplete
    <3>2. CASE ~Answers
      BY <1>15, <3>2 DEF InComplete, TypeOK
    <3>  QED  BY <3>1, <3>2
  <2>  QED  BY <1>15, <2>1, <2>2, <2>3, <2>4, <2>5 DEF InComplete, TypeOK
<1>16. CASE UNCHANGED vars
  BY <1>16 DEF vars, TypeOK
<1>  QED
  BY <1>1, <1>2, <1>3, <1>4, <1>5, <1>7, <1>8, <1>9, <1>10, <1>11, <1>12, <1>13, <1>14,
     <1>15, <1>16
  DEF Next, Step

-----------------------------------------------------------------------------
(* The shape of the calls and the owner of the mutex.                      *)
LEMMA ShapeMutexInit == Init => ShapeOK /\ MutexOK
BY ClientAssumption DEF Init, ShapeOK, MutexOK, Shaped, NoOp, Holds, JogKinds

(* A step keeps the shapes if it leaves its own call in one.               *)
LEMMA ShapeKept ==
  ASSUME ShapeOK, NEW c \in Client, Alone(c),
         \/ Ends(c)
         \/ /\ pc[c] # "idle" /\ pc'[c] # "idle"
            /\ SameAs(c, op'[c].phase)
            /\ \/ op'[c].phase = op[c].phase
               \/ op'[c].phase = "set" /\ pc'[c] = "send" /\ op[c].phase = "serial"
               \/ op'[c].phase = "verify" /\ op[c].kind = "chan"
            /\ pc'[c] = "send" \/ op'[c].phase # "set"
  PROVE  ShapeOK'
<1>1. Shaped(op'[c])
  BY DEF Ends, SameAs, Shaped, ShapeOK, NoOp, JogKinds
<1>2. pc'[c] = "idle" => op'[c] = NoOp
  BY DEF Ends
<1>3. pc'[c] \in {"down", "ask", "wait", "copy"} => op'[c].phase # "set"
  BY DEF Ends
<1>  QED  BY <1>1, <1>2, <1>3 DEF Alone, ShapeOK, Shaped

(* Who takes the mutex when nobody has it, or leaves it as it is, keeps    *)
(* its owner the only one who holds it.                                    *)
HoldsNext(c) == pc'[c] \in {"ask", "wait", "copy"} \/ (pc'[c] = "send" /\ op'[c].phase # "set")
LEMMA MutexKept ==
  ASSUME MutexOK, NEW c \in Client, Alone(c),
         \/ mutex' = mutex /\ (HoldsNext(c) <=> Holds(c))
         \/ mutex = NoOne /\ mutex' = c /\ HoldsNext(c)
         \/ mutex = c /\ mutex' = NoOne /\ ~HoldsNext(c)
  PROVE  MutexOK'
BY ClientAssumption DEF MutexOK, Alone, Holds, HoldsNext

LEMMA ShapeMutexStep ==
  TypeOK /\ ShapeOK /\ MutexOK /\ [Next]_vars => ShapeOK' /\ MutexOK'
<1> SUFFICES ASSUME TypeOK, ShapeOK, MutexOK, [Next]_vars
             PROVE  ShapeOK' /\ MutexOK'
  OBVIOUS
<1>1. ASSUME NEW c \in Client, IoctlSteel(c) \/ ProcSteel(c) \/ SteelSettings(c)
      PROVE  ShapeOK' /\ MutexOK'
  <2>1. PICK kind \in Kind, phase \in {"set", "serial", "verify", "get"},
             command \in Command, label \in {"send", "down"} :
               Began(c, kind, phase, command, label)
    BY <1>1, CallBegins
  <2> DEFINE o == [kind |-> kind, phase |-> phase, command |-> command, tries |-> 0, sends |-> 0]
  <2>2. /\ pc[c] = "idle" /\ Goto(c, label) /\ op' = [op EXCEPT ![c] = o] /\ mutex' = mutex
        /\ Shaped(o) /\ label = IF phase = "set" THEN "send" ELSE "down"
    BY <2>1 DEF Began, Begin, Goto, askVars
  <2>3. o \in Op /\ o.phase = phase
    BY NoOpTyped DEF Op
  <2> HIDE DEF o
  <2>4. Alone(c) /\ pc'[c] = label /\ op'[c] = o
    BY <2>2, <2>3, OpMoves DEF Label
  <2>5. ShapeOK'
    BY <2>2, <2>3, <2>4 DEF ShapeOK, Alone, Shaped
  <2>6. ~HoldsNext(c) /\ ~Holds(c)
    BY <2>2, <2>3, <2>4 DEF Holds, HoldsNext
  <2>  QED  BY <2>2, <2>4, <2>5, <2>6, MutexKept
<1>2. ASSUME NEW c \in Client, Down(c)
      PROVE  ShapeOK' /\ MutexOK'
  <2>1. Alone(c) /\ pc'[c] = "ask" /\ Same(c) /\ pc[c] = "down"
    BY <1>2, GotoMoves DEF Down, Label
  <2>2. op[c].phase # "set"
    BY <2>1 DEF ShapeOK
  <2>  QED
    BY <1>2, <2>1, <2>2, ShapeKept, MutexKept DEF Down, Same, SameAs, HoldsNext
<1>3. ASSUME NEW c \in Client, Ask(c)
      PROVE  ShapeOK' /\ MutexOK'
  <2> DEFINE o == [op[c] EXCEPT !.sends = 0]
  <2>1. o \in Op
    BY CommandKnown, OpChanged, NoOpTyped
  <2>5. o.kind = op[c].kind /\ o.command = op[c].command /\ o.phase = op[c].phase
    BY CommandKnown DEF Op
  <2>2. op' = [op EXCEPT ![c] = o] /\ Goto(c, "send") /\ pc[c] = "ask" /\ mutex' = mutex
    BY <1>3 DEF Ask
  <2> HIDE DEF o
  <2>3. Alone(c) /\ pc'[c] = "send" /\ Same(c)
    BY <2>1, <2>2, <2>5, OpMoves DEF Label, Same, SameAs
  <2>4. op[c].phase # "set"
    BY <2>2 DEF ShapeOK
  <2>  QED
    BY <2>2, <2>3, <2>4, ShapeKept, MutexKept DEF Same, SameAs, HoldsNext, Holds
<1>4. ASSUME NEW c \in Client, pc[c] = "send", SendDone(c), mutex' = mutex
      PROVE  ShapeOK' /\ MutexOK'
  <2>1. Alone(c) /\ GoneOut(c)
    BY <1>4, SendDoneMoves
  <2>2. ShapeOK'
    BY <1>4, <2>1, ShapeKept DEF GoneOut, Same, SameAs
  <2>  QED
    BY <1>4, <2>1, <2>2, MutexKept DEF GoneOut, Same, SameAs, HoldsNext, Holds, Ends
<1>5. ASSUME NEW c \in Client, Alone(c), Tries(c), Holds(c), pc[c] # "idle", op[c].phase # "set"
      PROVE  ShapeOK' /\ MutexOK'
  <2>1. ShapeOK'
    BY <1>5, ShapeKept DEF Tries, Same, SameAs
  <2>  QED
    BY <1>5, <2>1, MutexKept DEF Tries, Same, SameAs, HoldsNext, Holds, Ends, MutexOK
<1>6. ASSUME NEW c \in Client, pc[c] = "send", SendFailed(c)
      PROVE  ShapeOK' /\ MutexOK'
  <2>1. Alone(c) /\ NotOut(c)
    BY <1>6, SendFailedMoves
  <2>2. CASE op[c].phase # "set" /\ Tries(c)
    BY <1>5, <1>6, <2>1, <2>2 DEF Holds
  <2>3. CASE pc'[c] = pc[c] /\ Same(c) /\ mutex' = mutex
    BY <1>6, <2>1, <2>3, ShapeKept, MutexKept DEF Same, SameAs, HoldsNext, Holds
  <2>4. CASE op[c].phase = "set" /\ Ends(c) /\ mutex' = mutex
    BY <1>6, <2>1, <2>4, ShapeKept, MutexKept DEF HoldsNext, Holds, Ends
  <2>  QED  BY <2>1, <2>2, <2>3, <2>4 DEF NotOut
<1>7. ASSUME NEW c \in Client, WaitDone(c)
      PROVE  ShapeOK' /\ MutexOK'
  <2>1. Alone(c) /\ pc'[c] = "copy" /\ Same(c) /\ pc[c] = "wait" /\ mutex' = mutex
    BY <1>7, GotoMoves DEF WaitDone, Label
  <2>2. op[c].phase # "set"
    BY <2>1 DEF ShapeOK
  <2>  QED
    BY <2>1, <2>2, ShapeKept, MutexKept DEF Same, SameAs, HoldsNext, Holds
<1>8. ASSUME NEW c \in Client, WaitTimesOut(c)
      PROVE  ShapeOK' /\ MutexOK'
  <2>1. Alone(c) /\ Tries(c) /\ pc[c] = "wait" /\ Holds(c)
    BY <1>8, NextTryMoves DEF WaitTimesOut, Holds
  <2>2. op[c].phase # "set"
    BY <2>1 DEF ShapeOK
  <2>  QED  BY <1>5, <2>1, <2>2
<1>9. ASSUME NEW c \in Client, Copy(c)
      PROVE  ShapeOK' /\ MutexOK'
  <2>1. Alone(c) /\ Copied(c) /\ pc[c] = "copy" /\ Holds(c) /\ mutex = c
    BY <1>9, CopyMoves DEF Copy, Holds, MutexOK
  <2>2. op[c].phase # "set"
    BY <2>1 DEF ShapeOK
  <2>3. CASE op[c].phase = "serial" /\ pc'[c] = "send" /\ SameAs(c, "set") /\ mutex' = NoOne
    BY <2>1, <2>3, ShapeKept, MutexKept DEF SameAs, HoldsNext
  <2>  QED  BY <1>5, <2>1, <2>2, <2>3 DEF Copied
<1>10. ASSUME UNCHANGED <<pc, op, mutex>>
       PROVE  ShapeOK' /\ MutexOK'
  BY <1>10 DEF ShapeOK, MutexOK, Holds, Shaped
<1>11. Unasked \/ LateTake \/ InComplete \/ UNCHANGED vars => UNCHANGED <<pc, op, mutex>>
  BY DEF Unasked, LateTake, InComplete, vars, askVars
<1>12. ASSUME NEW c \in Client, SendOk(c) \/ SendUnawaited(c)
       PROVE  pc[c] = "send" /\ SendDone(c) /\ mutex' = mutex
  BY <1>12 DEF SendOk, SendUnawaited, askVars
<1>13. ASSUME NEW c \in Client, SendFails(c) \/ SendBusy(c) \/ SendRefused(c)
       PROVE  pc[c] = "send" /\ SendFailed(c)
  BY <1>13 DEF SendFails, SendBusy, SendRefused
<1>  QED
  BY <1>1, <1>2, <1>3, <1>4, <1>6, <1>7, <1>8, <1>9, <1>10, <1>11, <1>12, <1>13
  DEF Next, Step

-----------------------------------------------------------------------------
(* The answer belongs to the call.                                         *)
Answer == AskOK /\ AnswerFromThisCall

LEMMA AnswerInit == Init => Answer
BY DEF Init, Answer, AskOK, AnswerFromThisCall, Awaits

(* What AskOK says of a client in the middle of a question.                *)
Settled == ~pending /\ done = 0
Asking == (pending /\ done = 0) \/ (~pending /\ done = 1 /\ filled)

(* A step of the holder of the mutex, or of a call that does not hold it.  *)
LEMMA AnswerKept ==
  ASSUME TypeOK, MutexOK, MutexOK', Answer, NEW c \in Client, Alone(c),
         unanswered' = unanswered, stale' => stale,
         ~unanswered =>
           /\ mutex' = NoOne => Settled'
           /\ pc'[c] = "ask" => Settled'
           /\ Awaits(c)' => Asking'
           /\ pc'[c] = "copy" => Settled' /\ filled'
           /\ \A d \in Client : d # c /\ Holds(d) => UNCHANGED <<pending, done, filled>>
  PROVE  Answer'
<1>1. AnswerFromThisCall'
  BY DEF Answer, AnswerFromThisCall
<1>2. ASSUME ~unanswered, NEW d \in Client, d # c
      PROVE  /\ pc'[d] = "ask" => Settled'
             /\ Awaits(d)' => Asking'
             /\ pc'[d] = "copy" => Settled' /\ filled'
  <2>1. pc'[d] = pc[d] /\ op'[d] = op[d]
    BY <1>2 DEF Alone
  <2>2. Holds(d) => UNCHANGED <<pending, done, filled>>
    BY <1>2
  <2>  QED
    BY <1>2, <2>1, <2>2 DEF Answer, AskOK, Holds, Awaits, Asking, Settled
<1>3. AskOK'
  BY <1>2 DEF AskOK, Awaits, Asking, Settled
<1>  QED  BY <1>1, <1>3 DEF Answer

(* Once an attempt has ended without an answer there is nothing to keep.   *)
LEMMA AnswerGivenUp == unanswered' = TRUE => Answer'
BY DEF Answer, AskOK, AnswerFromThisCall

LEMMA AnswerStep ==
  TypeOK /\ TypeOK' /\ ShapeOK /\ ShapeOK' /\ MutexOK /\ MutexOK' /\ Answer /\ [Next]_vars => Answer'
<1> SUFFICES ASSUME TypeOK, TypeOK', ShapeOK, ShapeOK', MutexOK, MutexOK', Answer, [Next]_vars
             PROVE  Answer'
  OBVIOUS
<1> USE DEF askVars, histVars
<1>0. \A c, d \in Client : Holds(c) /\ Holds(d) => c = d
  BY DEF MutexOK
<1>1. ASSUME NEW c \in Client, Alone(c), UNCHANGED <<askVars, unanswered, stale, filled>>,
             pc[c] # "ask" /\ pc[c] # "copy", (~Holds(c)' /\ ~Holds(c)) \/ (Awaits(c) /\ Awaits(c)')
      PROVE  Answer'
  <2>1. ~unanswered =>
          /\ mutex' = NoOne => Settled'
          /\ pc'[c] = "ask" => Settled'
          /\ Awaits(c)' => Asking'
          /\ pc'[c] = "copy" => Settled' /\ filled'
    BY <1>1 DEF Answer, AskOK, Settled, Asking, Awaits, Holds
  <2>  QED  BY <1>1, <2>1, AnswerKept
<1>2. ASSUME NEW c \in Client, IoctlSteel(c) \/ ProcSteel(c) \/ SteelSettings(c)
      PROVE  Answer'
  <2>1. PICK kind \in Kind, phase \in {"set", "serial", "verify", "get"},
             command \in Command, label \in {"send", "down"} :
               Began(c, kind, phase, command, label)
    BY <1>2, CallBegins
  <2> DEFINE o == [kind |-> kind, phase |-> phase, command |-> command, tries |-> 0, sends |-> 0]
  <2>2. /\ pc[c] = "idle" /\ Goto(c, label) /\ op' = [op EXCEPT ![c] = o]
        /\ UNCHANGED <<askVars, unanswered, stale, filled>>
        /\ label = IF phase = "set" THEN "send" ELSE "down"
    BY <2>1 DEF Began, Begin, Goto
  <2>3. o \in Op /\ o.phase = phase
    BY NoOpTyped DEF Op
  <2> HIDE DEF o
  <2>4. Alone(c) /\ pc'[c] = label /\ op'[c] = o
    BY <2>2, <2>3, OpMoves DEF Label
  <2>5. ~Holds(c)' /\ ~Holds(c)
    BY <2>2, <2>3, <2>4 DEF Holds
  <2>  QED  BY <1>1, <2>2, <2>4, <2>5
<1>3. ASSUME NEW c \in Client, Down(c)
      PROVE  Answer'
  <2>1. Alone(c) /\ pc'[c] = "ask"
    BY <1>3, GotoMoves DEF Down, Label
  <2>2. mutex = NoOne /\ mutex' = c /\ UNCHANGED <<pending, done, unanswered, stale>>
    BY <1>3 DEF Down
  <2>3. \A d \in Client : ~Holds(d)
    BY <2>2, ClientAssumption DEF MutexOK
  <2>4. ~unanswered => Settled'
    BY <2>2 DEF Answer, AskOK, Settled
  <2>  QED
    BY <2>1, <2>2, <2>3, <2>4, AnswerKept, ClientAssumption DEF Awaits
<1>4. ASSUME NEW c \in Client, Ask(c)
      PROVE  Answer'
  <2> DEFINE o == [op[c] EXCEPT !.sends = 0]
  <2>1. o \in Op
    BY CommandKnown, OpChanged, NoOpTyped
  <2>2. op' = [op EXCEPT ![c] = o] /\ Goto(c, "send") /\ pc[c] = "ask"
    BY <1>4 DEF Ask
  <2> HIDE DEF o
  <2>3. Alone(c) /\ pc'[c] = "send"
    BY <2>1, <2>2, OpMoves DEF Label
  <2>4. pending' = TRUE /\ UNCHANGED <<mutex, done, unanswered, stale, filled>>
    BY <1>4 DEF Ask
  <2>5. Holds(c) /\ mutex = c /\ mutex # NoOne
    BY <2>2, ClientAssumption DEF Holds, MutexOK
  <2>6. ~unanswered => Asking'
    BY <2>2, <2>4 DEF Answer, AskOK, Asking
  <2>  QED  BY <2>3, <2>4, <2>5, <2>6, <1>0, AnswerKept DEF Awaits
<1>5. ASSUME NEW c \in Client, SendOk(c) \/ SendUnawaited(c)
      PROVE  Answer'
  <2>1. Alone(c) /\ GoneOut(c) /\ pc[c] = "send"
    BY <1>5, SendDoneMoves DEF SendOk, SendUnawaited
  <2>2. UNCHANGED <<askVars, unanswered, stale, filled>>
    BY <1>5 DEF SendOk, SendUnawaited
  <2>3. (~Holds(c)' /\ ~Holds(c)) \/ (Awaits(c) /\ Awaits(c)')
    BY <2>1 DEF Holds, Awaits, GoneOut, Ends
  <2>  QED  BY <1>1, <2>1, <2>2, <2>3
<1>6. ASSUME NEW c \in Client, SendFails(c) \/ SendBusy(c) \/ SendRefused(c)
      PROVE  Answer'
  <2>1. Alone(c) /\ NotOut(c) /\ pc[c] = "send"
    BY <1>6, SendFailedMoves DEF SendFails, SendBusy, SendRefused
  <2>2. UNCHANGED <<pending, done, bulk_data, stale, filled>>
    BY <1>6 DEF SendFails, SendBusy, SendRefused
  <2>3. CASE unanswered' = TRUE
    BY <2>3, AnswerGivenUp
  <2>4. CASE unanswered' # TRUE /\ unanswered' = unanswered /\ mutex' = mutex
    <3>1. (~Holds(c)' /\ ~Holds(c)) \/ (Awaits(c) /\ Awaits(c)')
      <4>1. CASE pc'[c] = pc[c] /\ Same(c)
        BY <2>1, <4>1 DEF Holds, Awaits, Same, SameAs
      <4>2. CASE op[c].phase = "set" /\ Ends(c)
        BY <2>1, <4>2 DEF Holds, Ends
      <4>  QED  BY <2>1, <2>4, <4>1, <4>2 DEF NotOut
    <3>  QED  BY <1>1, <2>1, <2>2, <2>4, <3>1
  <2>  QED  BY <2>1, <2>3, <2>4 DEF NotOut
<1>7. ASSUME NEW c \in Client, WaitDone(c)
      PROVE  Answer'
  <2>1. Alone(c) /\ pc'[c] = "copy" /\ pc[c] = "wait"
    BY <1>7, GotoMoves DEF WaitDone, Label
  <2>2. done > 0 /\ done' = done - 1 /\ UNCHANGED <<pending, mutex, unanswered, stale, filled>>
    BY <1>7 DEF WaitDone
  <2>3. Holds(c) /\ mutex = c /\ mutex # NoOne
    BY <2>1, ClientAssumption DEF Holds, MutexOK
  <2>4. ~unanswered => Settled' /\ filled'
    BY <2>1, <2>2 DEF Answer, AskOK, Settled, Awaits
  <2>  QED  BY <2>1, <2>2, <2>3, <2>4, <1>0, AnswerKept DEF Awaits
<1>8. ASSUME NEW c \in Client, WaitTimesOut(c)
      PROVE  Answer'
  BY <1>8, AnswerGivenUp DEF WaitTimesOut
<1>9. ASSUME NEW c \in Client, Copy(c)
      PROVE  Answer'
  <2>1. Alone(c) /\ Copied(c) /\ pc[c] = "copy"
    BY <1>9, CopyMoves DEF Copy
  <2>2. UNCHANGED <<pending, done, unanswered, filled>>
    BY <1>9 DEF Copy
  <2>3. stale' = (stale \/ ~filled)
    BY <1>9 DEF Copy
  <2>4. Holds(c)
    BY <2>1 DEF Holds
  <2>5. ~unanswered => Settled /\ filled
    BY <2>1 DEF Answer, AskOK, Settled
  <2>6. CASE unanswered
    BY <2>2, <2>6, AnswerGivenUp, Zenon
  <2>7. CASE ~unanswered
    <3>1. ~Awaits(c)' /\ pc'[c] # "copy"
      BY <2>1 DEF Copied, Tries, Ends, Same, SameAs, Awaits
    <3>2. stale' => stale
      BY <2>3, <2>5, <2>7
    <3>3. Settled'
      BY <2>2, <2>5, <2>7 DEF Settled
    <3>  QED  BY <2>1, <2>2, <2>4, <2>7, <3>1, <3>2, <3>3, <1>0, AnswerKept
  <2>  QED  BY <2>6, <2>7
<1>10. CASE InComplete
  <2>1. UNCHANGED <<pc, op, mutex, unanswered, stale>>
    BY <1>10 DEF InComplete
  <2>2. CASE ~pending
    <3>1. UNCHANGED <<pending, done, filled>>
      BY <1>10, <2>2 DEF InComplete, Answers
    <3>  QED
      BY <2>1, <3>1 DEF Answer, AskOK, AnswerFromThisCall, Awaits
  <2>3. CASE pending
    <3>1. ~pending' /\ done' = done + 1 /\ filled'
      BY <1>10, <2>3 DEF InComplete, Answers
    <3>2. ~unanswered => \E c \in Client : mutex = c /\ Awaits(c)
      BY <2>3 DEF Answer, AskOK, TypeOK, MutexOK, Holds, Awaits
    <3>3. ~unanswered => mutex # NoOne /\ done = 0
      BY <2>3, <3>2, ClientAssumption DEF Answer, AskOK
    <3>4. \A c \in Client : ~unanswered => pc[c] # "ask" /\ pc[c] # "copy"
      BY <2>3 DEF Answer, AskOK
    <3>  QED
      BY <2>1, <3>1, <3>3, <3>4 DEF Answer, AskOK, AnswerFromThisCall, Awaits
  <2>  QED  BY <2>2, <2>3
<1>11. CASE Unasked \/ LateTake \/ UNCHANGED vars
  <2>1. UNCHANGED <<pc, op, mutex, pending, done, unanswered, stale, filled>>
    BY <1>11 DEF Unasked, LateTake, vars
  <2>  QED
    BY <2>1 DEF Answer, AskOK, AnswerFromThisCall, Awaits
<1>  QED
  BY <1>2, <1>3, <1>4, <1>5, <1>6, <1>7, <1>8, <1>9, <1>10, <1>11
  DEF Next, Step

-----------------------------------------------------------------------------
(* The channel and the jog word.                                           *)

(* No step puts another kind or command in a call that sets the channel or *)
(* the jog word.                                                           *)
Kept ==
  \A c \in Client : op'[c].kind \in {"chan"} \cup JogKinds =>
    op'[c].kind = op[c].kind /\ op'[c].command = op[c].command

LEMMA AloneKeeps ==
  ASSUME NEW c \in Client, Alone(c), Ends(c) \/ SameAs(c, op'[c].phase)
  PROVE  Kept
BY DEF Kept, Alone, Ends, SameAs, NoOp, JogKinds

(* The command a call sends is its own only while it sets.                 *)
LEMMA CommandOfShape ==
  ASSUME TypeOK, ShapeOK, NEW c \in Client
  PROVE  /\ CommandOf(c).to = "chan" => op[c].kind = "chan" /\ CommandOf(c) = op[c].command
         /\ CommandOf(c).to = "jog" => IsJogSet(c) /\ CommandOf(c) = op[c].command
         /\ IsJogSet(c) => CommandOf(c) = op[c].command /\ op[c].command.to = "jog"
BY DEF CommandOf, ShapeOK, Shaped, IsJogSet, ToSend

Channels == OlderOK /\ ChanOK

LEMMA ChannelsInit == Init => Channels
BY DEF Init, Channels, OlderOK, ChanOK, NoOp

(* A step that takes at most a command that the call under way may send,   *)
(* leaves at most such commands in the URB and sends the device's channel. *)
LEMMA ChannelsKept ==
  ASSUME TypeOK, Channels, Kept,
         Tells \/ (device' = device /\ wire' = wire),
         UNCHANGED <<bulk_data, chanVars>>,
         device'.chan # device.chan =>
           \/ \E c \in Client : op[c].kind = "chan" /\ device'.chan = op[c].command.chan
           \/ \E command \in flying : command.to = "chan" /\ device'.chan = command.chan,
         \A command \in flying' : command.to = "chan" =>
           \/ command \in flying
           \/ \E c \in Client : op[c].kind = "chan" /\ command = op[c].command
  PROVE  Channels'
<1> USE DEF chanVars
<1>1. OlderOK'
  BY DEF Channels, OlderOK, Tells, TypeOK, MaxWire
<1>2. SUFFICES ASSUME ~chan_raced
               PROVE  ChanOK'
  BY <1>1 DEF Channels, ChanOK
<1>3. /\ \A c, d \in Client : op[c].kind = "chan" /\ op[d].kind = "chan" => c = d
      /\ \A c \in Client : op[c].kind = "chan" => said_chan = {} /\ Shows(op[c].command.chan)
      /\ \A command \in flying, chan \in said_chan : Flown(command, chan)
      /\ said_chan \subseteq {device.chan}
  BY <1>2 DEF Channels, ChanOK
<1>4. \A c, d \in Client : op'[c].kind = "chan" /\ op'[d].kind = "chan" => c = d
  BY <1>3 DEF Kept
<1>5. ASSUME NEW c \in Client, op'[c].kind = "chan"
      PROVE  said_chan' = {} /\ Shows(op[c].command.chan)' /\ op'[c].command = op[c].command
  <2> DEFINE k == op[c].command.chan
  <2>1. op[c].kind = "chan" /\ op'[c].command = op[c].command
    BY <1>5 DEF Kept
  <2>2. said_chan = {} /\ Shows(k)
    BY <1>3, <2>1
  <2>3. \A d \in Client : op[d].kind = "chan" => d = c
    BY <1>3, <2>1
  <2>4. device'.chan = device.chan \/ device'.chan = k
    BY <2>2, <2>3 DEF Shows, Flown
  <2>5. \A command \in flying' : Flown(command, k)
    BY <2>2, <2>3 DEF Shows, Flown
  <2>6. device.chan = k => device'.chan = k
    BY <2>4
  <2>7. ASSUME NEW i \in 1..Len(wire'), i > older', wire'[i].chan = k
        PROVE  device'.chan = k
    <3>1. CASE device' = device /\ wire' = wire
      BY <2>2, <2>7, <3>1 DEF Shows
    <3>2. CASE Tells /\ i <= Len(wire)
      <4>1. i \in 1..Len(wire) /\ wire'[i] = wire[i] /\ i > older
        BY <2>7, <3>2 DEF Tells, TypeOK
      <4>  QED  BY <2>2, <2>6, <2>7, <4>1 DEF Shows
    <3>3. CASE Tells /\ ~(i <= Len(wire))
      <4>1. i > Len(wire)
        BY <3>3, <2>7 DEF TypeOK, Tells
      <4>  QED  BY <2>7, <3>3, <4>1 DEF Tells
    <3>  QED  BY <3>1, <3>2, <3>3
  <2>8. ~data_old' /\ bulk_data'.chan = k => device'.chan = k
    BY <2>2, <2>6 DEF Shows
  <2>9. Shows(k)'
    BY <2>1, <2>5, <2>7, <2>8 DEF Shows
  <2>  QED  BY <2>1, <2>2, <2>9
<1>6. \A command \in flying', chan \in said_chan' : Flown(command, chan)
  BY <1>3 DEF Flown
<1>7. said_chan' \subseteq {device'.chan}
  <2>1. CASE device'.chan = device.chan
    BY <1>3, <2>1
  <2>2. CASE \E c \in Client : op[c].kind = "chan"
    BY <1>3, <2>2
  <2>3. CASE \E command \in flying : command.to = "chan" /\ device'.chan = command.chan
    BY <1>3, <2>3 DEF Flown
  <2>  QED  BY <2>1, <2>2, <2>3
<1>  QED
  BY <1>4, <1>5, <1>6, <1>7 DEF ChanOK

(* The steps of a call keep its kind and its command.                      *)
LEMMA StepKeeps ==
  ASSUME TypeOK, NEW c \in Client, Down(c) \/ Step(c)
  PROVE  Kept
<1>1. CASE Down(c)
  BY <1>1, GotoMoves, AloneKeeps DEF Down, Same, Label, SameAs
<1>2. CASE WaitDone(c)
  BY <1>2, GotoMoves, AloneKeeps DEF WaitDone, Same, Label, SameAs
<1>3. CASE Ask(c)
  <2> DEFINE o == [op[c] EXCEPT !.sends = 0]
  <2>1. o \in Op
    BY CommandKnown, OpChanged, NoOpTyped
  <2>2. o.kind = op[c].kind /\ o.command = op[c].command
    BY CommandKnown DEF Op
  <2>3. op' = [op EXCEPT ![c] = o] /\ Goto(c, "send")
    BY <1>3 DEF Ask
  <2> HIDE DEF o
  <2>4. Alone(c) /\ op'[c] = o
    BY <2>1, <2>3, OpMoves DEF Label
  <2>  QED  BY <2>2, <2>4, AloneKeeps DEF SameAs
<1>4. CASE SendOk(c) \/ SendUnawaited(c)
  <2>1. Alone(c) /\ GoneOut(c)
    BY <1>4, SendDoneMoves DEF SendOk, SendUnawaited
  <2>  QED  BY <2>1, AloneKeeps DEF GoneOut, Same, SameAs
<1>5. CASE SendFails(c) \/ SendBusy(c) \/ SendRefused(c)
  <2>1. Alone(c) /\ NotOut(c)
    BY <1>5, SendFailedMoves DEF SendFails, SendBusy, SendRefused
  <2>  QED  BY <2>1, AloneKeeps DEF NotOut, Tries, Same, SameAs
<1>6. CASE WaitTimesOut(c)
  <2>1. Alone(c) /\ Tries(c)
    BY <1>6, NextTryMoves DEF WaitTimesOut
  <2>  QED  BY <2>1, AloneKeeps DEF Tries, Same, SameAs
<1>7. CASE Copy(c)
  <2>1. Alone(c) /\ Copied(c)
    BY <1>7, CopyMoves
  <2>  QED  BY <2>1, AloneKeeps DEF Copied, Tries, Same, SameAs
<1>  QED  BY <1>1, <1>2, <1>3, <1>4, <1>5, <1>6, <1>7 DEF Step

(* A call that has read back what it set ends.                             *)
LEMMA CopyEnds ==
  ASSUME TypeOK, NEW c \in Client, Copy(c), op[c].phase = "verify"
  PROVE  Ends(c)
BY ReturnEnds DEF Copy

(* A command left in the URB by a call that sets the channel is its own.   *)
LEMMA FlyingOwn ==
  ASSUME TypeOK, ShapeOK, NEW c \in Client, flying' \in {flying, {CommandOf(c)}}
  PROVE  /\ \A command \in flying' : command.to = "chan" =>
              \/ command \in flying
              \/ \E d \in Client : op[d].kind = "chan" /\ command = op[d].command
         /\ \A command \in flying' : command.to = "jog" => command \in flying \/ IsJogSet(c)
BY CommandOfShape

LEMMA ChannelsStep ==
  TypeOK /\ ShapeOK /\ Channels /\ [Next]_vars => Channels'
<1> SUFFICES ASSUME TypeOK, ShapeOK, Channels, [Next]_vars
             PROVE  Channels'
  OBVIOUS
<1> USE DEF outVars, askVars, histVars
<1>1. ASSUME NEW c \in Client, IoctlSteel(c) \/ ProcSteel(c) \/ SteelSettings(c)
      PROVE  Channels'
  <2>1. PICK kind \in Kind, phase \in {"set", "serial", "verify", "get"},
             command \in Command, label \in {"send", "down"} :
               Began(c, kind, phase, command, label)
    BY <1>1, CallBegins
  <2> DEFINE o == [kind |-> kind, phase |-> phase, command |-> command, tries |-> 0, sends |-> 0]
  <2>2. /\ pc[c] = "idle" /\ Goto(c, label) /\ op' = [op EXCEPT ![c] = o]
        /\ UNCHANGED <<device, wire, flying, bulk_data>>
    BY <2>1 DEF Began, Begin, Goto
  <2>3. o \in Op /\ o.kind = kind
    BY NoOpTyped DEF Op
  <2>4. op[c] = NoOp
    BY <2>2 DEF ShapeOK
  <2> HIDE DEF o
  <2>5. Alone(c) /\ op'[c] = o
    BY <2>2, <2>3, OpMoves DEF Label
  <2>6. CASE kind # "chan"
    <3>1. UNCHANGED chanVars
      BY <2>1, <2>6 DEF Began, Begin, chanVars
    <3>2. \A d \in Client : op'[d].kind = "chan" => op'[d] = op[d]
      BY <2>3, <2>5, <2>6 DEF Alone
    <3>3. \A d \in Client : op[d].kind = "chan" => op'[d] = op[d]
      BY <2>4, <2>5 DEF Alone, NoOp
    <3>  QED
      BY <2>2, <3>1, <3>2, <3>3
      DEF Channels, OlderOK, ChanOK, chanVars, Shows
  <2>7. CASE kind = "chan"
    <3>1. /\ chan_raced' = (Overlaps(c, {"chan"}) \/ ChannelFlies)
          /\ said_chan' = {}
      BY <2>1, <2>7 DEF Began, Begin
    <3>2. ~chan_raced' => older' = Len(wire) /\ data_old' = TRUE
      BY <2>1, <2>7 DEF Began, Begin
    <3>3. chan_raced' => older' = 0
      BY <2>1, <2>7 DEF Began, Begin
    <3>4. OlderOK'
      BY <2>2, <3>2, <3>3 DEF OlderOK, TypeOK
    <3>5. ASSUME ~chan_raced', NEW d \in Client, op'[d].kind = "chan"
          PROVE  d = c
      <4>1. CASE d # c
        <5>1. op[d].kind = "chan"
          BY <2>5, <3>5, <4>1 DEF Alone
        <5>2. pc[d] # "idle"
          BY <5>1 DEF ShapeOK, NoOp
        <5>  QED  BY <3>1, <3>5, <4>1, <5>1, <5>2 DEF Overlaps
      <4>  QED  BY <4>1
    <3>6. ~chan_raced' => \A f \in flying : f.to # "chan"
      BY <3>1 DEF ChannelFlies
    <3>7. ASSUME ~chan_raced', NEW chan
          PROVE  /\ \A f \in flying' : Flown(f, chan)
                 /\ \A i \in 1..Len(wire') : i > older' => FALSE
                 /\ data_old'
      BY <2>2, <3>2, <3>6, <3>7 DEF Flown, TypeOK
    <3>8. ~chan_raced' => \A d \in Client : Shows(op[d].command.chan)'
      BY <3>7 DEF Shows
    <3>  QED  BY <3>1, <3>4, <3>5, <3>8 DEF Channels, ChanOK
  <2>  QED  BY <2>6, <2>7
<1>2. ASSUME NEW c \in Client,
             Down(c) \/ Ask(c) \/ SendRefused(c) \/ WaitDone(c) \/ WaitTimesOut(c)
      PROVE  Channels'
  <2>1. UNCHANGED <<device, wire, flying, bulk_data, chanVars>>
    BY <1>2 DEF Down, Ask, SendRefused, WaitDone, WaitTimesOut
  <2>2. Kept
    BY <1>2, StepKeeps DEF Step
  <2>  QED  BY <2>1, <2>2, ChannelsKept
<1>3. ASSUME NEW c \in Client, Kept, UNCHANGED <<bulk_data, chanVars, flying>>,
             Takes(CommandOf(c)) \/ UNCHANGED <<device, wire>>
      PROVE  Channels'
  <2>1. CASE UNCHANGED <<device, wire>>
    BY <1>3, <2>1, ChannelsKept
  <2>2. CASE Takes(CommandOf(c))
    <3>1. /\ Tells
          /\ device'.chan # device.chan =>
               CommandOf(c).to = "chan" /\ device'.chan = CommandOf(c).chan
      BY <2>2, TakenTells, CommandKnown
    <3>2. device'.chan # device.chan =>
            \E d \in Client : op[d].kind = "chan" /\ device'.chan = op[d].command.chan
      BY <3>1, CommandOfShape
    <3>  QED  BY <1>3, <3>1, <3>2, ChannelsKept
  <2>  QED  BY <1>3, <2>1, <2>2
<1>4. ASSUME NEW c \in Client, SendOk(c) \/ SendFails(c)
      PROVE  Channels'
  <2>1. Kept
    BY <1>4, StepKeeps DEF Step
  <2>  QED  BY <1>3, <1>4, <2>1 DEF SendOk, SendFails
<1>5. ASSUME NEW c \in Client, SendUnawaited(c) \/ SendBusy(c)
      PROVE  Channels'
  <2>1. Kept
    BY <1>5, StepKeeps DEF Step
  <2>2. flying' \in {flying, {CommandOf(c)}} /\ UNCHANGED <<device, wire, bulk_data, chanVars>>
    BY <1>5 DEF SendUnawaited, SendBusy
  <2>  QED  BY <2>1, <2>2, FlyingOwn, ChannelsKept
<1>6. ASSUME NEW c \in Client, Copy(c)
      PROVE  Channels'
  <2>1. Kept
    BY <1>6, StepKeeps DEF Step
  <2>2. UNCHANGED <<device, wire, flying, bulk_data, chan_raced>>
    BY <1>6 DEF Copy
  <2>3. CASE op[c].phase # "verify"
    <3>1. UNCHANGED chanVars
      BY <1>6, <2>3 DEF Copy, chanVars
    <3>  QED  BY <2>1, <2>2, <3>1, ChannelsKept
  <2>4. CASE op[c].phase = "verify"
    <3>1. /\ said_chan' = IF Verified(c) /\ ~data_old THEN {op[c].command.chan} ELSE {}
          /\ older' = 0
      BY <1>6, <2>4 DEF Copy
    <3>2. OlderOK'
      BY <2>2, <3>1 DEF OlderOK, TypeOK
    <3>3. op[c].kind = "chan"
      BY <2>4 DEF ShapeOK, Shaped
    <3>5. op'[c] = NoOp
      BY <1>6, <2>4, CopyEnds DEF Ends
    <3>6. SUFFICES ASSUME ~chan_raced
                   PROVE  ChanOK'
      BY <2>2, <3>2 DEF Channels, ChanOK
    <3>7. /\ \A d \in Client : op[d].kind = "chan" => d = c
          /\ Shows(op[c].command.chan)
      BY <3>3, <3>6 DEF Channels, ChanOK
    <3>8. \A d \in Client : op'[d].kind # "chan"
      BY <2>1, <3>5, <3>7 DEF Kept, NoOp
    <3>9. \A f \in flying', chan \in said_chan' : Flown(f, chan)
      BY <2>2, <3>1, <3>7 DEF Shows
    <3>10. said_chan' \subseteq {device'.chan}
      BY <2>2, <3>1, <3>7 DEF Shows, Verified
    <3>  QED  BY <3>8, <3>9, <3>10 DEF ChanOK
  <2>  QED  BY <2>3, <2>4
<1>7. CASE Unasked
  <2>1. device' = device /\ UNCHANGED <<flying, bulk_data, op, chanVars>> /\ wire' = Sent(device)
    BY <1>7 DEF Unasked
  <2>2. Tells
    BY <2>1, SentBehind DEF Tells, TypeOK
  <2>  QED  BY <2>1, <2>2, ChannelsKept DEF Kept
<1>8. CASE LateTake
  <2>1. PICK command \in flying : Takes(command)
    BY <1>8 DEF LateTake
  <2>2. flying' = {} /\ UNCHANGED <<bulk_data, op, chanVars>>
    BY <1>8 DEF LateTake
  <2>3. /\ Tells
        /\ device'.chan # device.chan => command.to = "chan" /\ device'.chan = command.chan
    BY <2>1, TakenTells DEF TypeOK
  <2>  QED  BY <2>2, <2>3, ChannelsKept DEF Kept
<1>9. CASE InComplete
  <2>1. /\ wire # <<>> /\ wire' = Tail(wire)
        /\ UNCHANGED <<device, flying, op, chan_raced, said_chan>>
        /\ older' = IF older > 0 THEN older - 1 ELSE 0
    BY <1>9 DEF InComplete
  <2>2. /\ Len(wire) \in Nat /\ Len(wire) > 0 /\ Len(wire') = Len(wire) - 1
        /\ \A i \in 1..Len(wire') : wire'[i] = wire[i + 1] /\ i + 1 \in 1..Len(wire)
        /\ Head(wire) = wire[1] /\ wire[1].chan = Head(wire).chan
    BY <2>1 DEF TypeOK
  <2>3. OlderOK'
    BY <2>1, <2>2 DEF Channels, OlderOK, TypeOK
  <2>4. ASSUME NEW chan, Shows(chan)
        PROVE  /\ \A f \in flying' : Flown(f, chan)
               /\ \A i \in 1..Len(wire') : i > older' /\ wire'[i].chan = chan => device'.chan = chan
               /\ ~data_old' /\ bulk_data'.chan = chan => device'.chan = chan
    <3>1. \A f \in flying' : Flown(f, chan)
      BY <2>1, <2>4 DEF Shows
    <3>2. ASSUME NEW i \in 1..Len(wire'), i > older', wire'[i].chan = chan
          PROVE  device'.chan = chan
      <4>1. i + 1 > older
        BY <2>1, <2>2, <3>2 DEF TypeOK
      <4>2. i + 1 \in 1..Len(wire) /\ wire[i + 1].chan = chan
        BY <2>2, <3>2
      <4>  QED  BY <2>1, <2>4, <4>1, <4>2 DEF Shows
    <3>3. ASSUME ~data_old', bulk_data'.chan = chan
          PROVE  device'.chan = chan
      <4>1. CASE Answers
        <5>1. bulk_data' = Looked(Head(wire))
          BY <1>9, <4>1 DEF InComplete
        <5>2. data_old' = (older > 0)
          BY <1>9, <4>1 DEF InComplete
        <5>3. ~(older > 0)
          BY <3>3, <5>2
        <5>4. 1 \in 1..Len(wire) /\ 1 > older
          BY <2>2, <5>3 DEF TypeOK
        <5>5. wire[1].chan = chan
          BY <2>2, <3>3, <5>1 DEF Looked
        <5>  QED  BY <2>1, <2>4, <5>4, <5>5 DEF Shows
      <4>2. CASE ~Answers
        <5>1. UNCHANGED <<bulk_data, data_old>>
          BY <1>9, <4>2 DEF InComplete
        <5>  QED  BY <2>1, <2>4, <3>3, <5>1 DEF Shows
      <4>  QED  BY <4>1, <4>2
    <3>  QED  BY <3>1, <3>2, <3>3
  <2>5. \A c \in Client : Shows(op[c].command.chan) => Shows(op[c].command.chan)'
    <3> TAKE c \in Client
    <3> HAVE Shows(op[c].command.chan)
    <3>1. op'[c].command.chan = op[c].command.chan
      BY <2>1
    <3>  QED  BY <2>4, <3>1 DEF Shows
  <2>  QED  BY <2>1, <2>3, <2>5 DEF Channels, ChanOK
<1>10. CASE UNCHANGED vars
  <2>1. UNCHANGED <<device, wire, flying, bulk_data, op, chanVars>>
    BY <1>10 DEF vars
  <2>  QED  BY <2>1, ChannelsKept DEF Kept
<1>  QED
  BY <1>1, <1>2, <1>4, <1>5, <1>6, <1>7, <1>8, <1>9, <1>10
  DEF Next, Step

-----------------------------------------------------------------------------
(* The jog word.                                                           *)
LEMMA JogInit == Init => JogOK
BY DEF Init, JogOK, NoOp, JogKinds

(* A step that leaves the word of the device, or is the call's that sets   *)
(* it.                                                                     *)
LEMMA JogLeft ==
  ASSUME TypeOK, JogOK, Kept, jog_broken' = FALSE => ~jog_broken, jog_rushed' = jog_rushed,
         ~jog_broken' => device'.jog = device.jog, asked_jog' = asked_jog,
         ~jog_broken' => \A f \in flying' : f.to = "jog" => f \in flying
  PROVE  JogOK'
<1> SUFFICES ASSUME ~jog_broken', ~jog_rushed'
             PROVE  JogOK'
  BY DEF JogOK
<1>1. ~jog_broken /\ ~jog_rushed
  OBVIOUS
<1>2. \A c \in Client : op'[c].kind \in JogKinds => op'[c].kind = op[c].kind /\ op'[c].command = op[c].command
  BY DEF Kept
<1>  QED  BY <1>1, <1>2 DEF JogOK

LEMMA JogStep ==
  TypeOK /\ TypeOK' /\ ShapeOK /\ JogOK /\ [Next]_vars => JogOK'
<1> SUFFICES ASSUME TypeOK, TypeOK', ShapeOK, JogOK, [Next]_vars
             PROVE  JogOK'
  OBVIOUS
<1> USE DEF outVars, askVars, histVars
<1>1. ASSUME NEW c \in Client, IoctlSteel(c) \/ ProcSteel(c) \/ SteelSettings(c)
      PROVE  JogOK'
  <2>1. PICK kind \in Kind, phase \in {"set", "serial", "verify", "get"},
             command \in Command, label \in {"send", "down"} :
               Began(c, kind, phase, command, label)
    BY <1>1, CallBegins
  <2> DEFINE o == [kind |-> kind, phase |-> phase, command |-> command, tries |-> 0, sends |-> 0]
  <2>2. /\ pc[c] = "idle" /\ Goto(c, label) /\ op' = [op EXCEPT ![c] = o]
        /\ UNCHANGED <<device, flying, asked_jog>>
        /\ kind \in JogKinds => command.jog \ {kind} = jog \ {kind}
    BY <2>1 DEF Began, Begin, Goto
  <2>3. o \in Op /\ o.kind = kind /\ o.command = command
    BY NoOpTyped DEF Op
  <2>4. op[c] = NoOp
    BY <2>2 DEF ShapeOK
  <2> HIDE DEF o
  <2>5. Alone(c) /\ op'[c] = o
    BY <2>2, <2>3, OpMoves DEF Label
  <2>6. jog_broken' = (jog_broken \/ (kind \in JogKinds /\ Overlaps(c, JogKinds)))
    BY <2>1 DEF Began, Begin
  <2>7. jog_rushed' = (jog_rushed \/ (kind \in JogKinds /\ jog # device.jog))
    BY <2>1 DEF Began, Begin
  <2>8. SUFFICES ASSUME ~jog_broken', ~jog_rushed'
                 PROVE  JogOK'
    BY DEF JogOK
  <2>9. ~jog_broken /\ ~jog_rushed
    BY <2>6, <2>7, <2>8
  <2>10. CASE kind \notin JogKinds
    <3>1. \A d \in Client : op'[d].kind \in JogKinds => op'[d] = op[d]
      BY <2>3, <2>5, <2>10 DEF Alone
    <3>  QED  BY <2>2, <2>9, <3>1 DEF JogOK
  <2>11. CASE kind \in JogKinds
    <3>1. jog = device.jog /\ ~Overlaps(c, JogKinds)
      BY <2>6, <2>7, <2>8, <2>11
    <3>2. ASSUME NEW d \in Client, op'[d].kind \in JogKinds, d # c
          PROVE  FALSE
      <4>1. op[d].kind \in JogKinds
        BY <2>5, <3>2 DEF Alone
      <4>2. pc[d] # "idle"
        BY <4>1 DEF ShapeOK, NoOp, JogKinds
      <4>  QED  BY <3>1, <3>2, <4>1, <4>2 DEF Overlaps
    <3>3. op'[c].command.jog \ {op'[c].kind} = device'.jog \ {op'[c].kind}
      BY <2>2, <2>3, <2>5, <2>11, <3>1
    <3>  QED  BY <2>2, <2>9, <3>2, <3>3 DEF JogOK
  <2>  QED  BY <2>10, <2>11
<1>2. ASSUME NEW c \in Client,
             Down(c) \/ Ask(c) \/ WaitDone(c) \/ WaitTimesOut(c) \/ Copy(c)
      PROVE  JogOK'
  <2>1. UNCHANGED <<device, flying, asked_jog, jog_broken, jog_rushed>>
    BY <1>2 DEF Down, Ask, WaitDone, WaitTimesOut, Copy
  <2>2. Kept
    BY <1>2, StepKeeps DEF Step
  <2>  QED  BY <2>1, <2>2, JogLeft
<1>3. ASSUME NEW c \in Client, SendFails(c) \/ SendBusy(c) \/ SendRefused(c)
      PROVE  JogOK'
  <2>1. Kept
    BY <1>3, StepKeeps DEF Step
  <2>2. jog_broken' = (jog_broken \/ IsJogSet(c)) /\ UNCHANGED <<asked_jog, jog_rushed>>
    BY <1>3, SendFailedMoves DEF SendFails, SendBusy, SendRefused
  <2>3. UNCHANGED device \/ Takes(CommandOf(c))
    BY <1>3 DEF SendFails, SendBusy, SendRefused
  <2>4. flying' \in {flying, {CommandOf(c)}}
    BY <1>3 DEF SendFails, SendBusy, SendRefused
  <2>5. ~IsJogSet(c) => device'.jog = device.jog
    <3>1. CASE Takes(CommandOf(c))
      BY <3>1, CommandKnown, TakenTells, CommandOfShape
    <3>  QED  BY <2>3, <3>1
  <2>  QED  BY <2>1, <2>2, <2>4, <2>5, FlyingOwn, JogLeft
<1>4. ASSUME NEW c \in Client, SendUnawaited(c)
      PROVE  JogOK'
  <2>1. Kept
    BY <1>4, StepKeeps DEF Step
  <2>2. jog_broken' = (jog_broken \/ IsJogSet(c)) /\ UNCHANGED <<device, asked_jog, jog_rushed>>
    BY <1>4 DEF SendUnawaited
  <2>3. flying' \in {flying, {CommandOf(c)}}
    BY <1>4 DEF SendUnawaited
  <2>  QED  BY <2>1, <2>2, <2>3, FlyingOwn, JogLeft
<1>5. ASSUME NEW c \in Client, SendOk(c)
      PROVE  JogOK'
  <2>1. Kept
    BY <1>5, StepKeeps DEF Step
  <2>2. UNCHANGED <<flying, jog_broken, jog_rushed>>
    BY <1>5 DEF SendOk
  <2>3. device'.jog = IF CommandOf(c).to = "jog" THEN CommandOf(c).jog ELSE device.jog
    BY <1>5, CommandKnown, TakenTells DEF SendOk
  <2>4. CASE ~IsJogSet(c)
    <3>1. device'.jog = device.jog
      BY <2>3, <2>4, CommandOfShape
    <3>2. asked_jog' = asked_jog
      BY <1>5, <2>4 DEF SendOk
    <3>  QED  BY <2>1, <2>2, <3>1, <3>2, JogLeft
  <2>5. CASE IsJogSet(c)
    <3> DEFINE k == op[c].kind
               word == op[c].command.jog
    <3>1. device'.jog = word
      BY <2>3, <2>5, CommandOfShape
    <3>2. asked_jog' = (asked_jog \ {k}) \cup (word \cap {k})
      BY <1>5, <2>5 DEF SendOk
    <3>3. Ends(c) /\ Alone(c)
      <4>1. op[c].phase = "set" /\ op[c].kind # "chan"
        BY <2>5 DEF IsJogSet, ShapeOK, Shaped, JogKinds
      <4>  QED  BY <1>5, <4>1, SendDoneMoves DEF SendOk, GoneOut
    <3>4. SUFFICES ASSUME ~jog_broken', ~jog_rushed'
                   PROVE  JogOK'
      BY DEF JogOK
    <3>5. /\ device.jog = asked_jog
          /\ word \ {k} = device.jog \ {k}
          /\ \A d \in Client : op[d].kind \in JogKinds => d = c
          /\ \A f \in flying : f.to # "jog"
      BY <2>2, <2>5, <3>4 DEF JogOK, IsJogSet
    <3>6. asked_jog' = word
      <4>1. asked_jog \ {k} = word \ {k}
        BY <3>5
      <4>2. (word \ {k}) \cup (word \cap {k}) = word
        OBVIOUS
      <4>  QED  BY <3>2, <4>1, <4>2
    <3>7. \A d \in Client : op'[d].kind \notin JogKinds
      BY <2>1, <3>3, <3>5 DEF Kept, Ends, NoOp, JogKinds
    <3>  QED  BY <2>2, <3>1, <3>5, <3>6, <3>7 DEF JogOK
  <2>  QED  BY <2>4, <2>5
<1>6. CASE LateTake
  <2>1. PICK command \in flying : Takes(command)
    BY <1>6 DEF LateTake
  <2>2. flying' = {} /\ UNCHANGED <<op, asked_jog, jog_broken, jog_rushed>>
    BY <1>6 DEF LateTake
  <2>3. device'.jog = IF command.to = "jog" THEN command.jog ELSE device.jog
    BY <2>1, TakenTells DEF TypeOK
  <2>4. ~jog_broken /\ ~jog_rushed => device'.jog = device.jog
    BY <2>1, <2>3 DEF JogOK
  <2>  QED  BY <2>2, <2>4 DEF JogOK
<1>7. CASE Unasked \/ InComplete \/ UNCHANGED vars
  <2>1. UNCHANGED <<device, flying, op, asked_jog, jog_broken, jog_rushed>>
    BY <1>7 DEF Unasked, InComplete, vars
  <2>  QED  BY <2>1, JogLeft DEF Kept
<1>  QED
  BY <1>1, <1>2, <1>3, <1>4, <1>5, <1>6, <1>7
  DEF Next, Step

-----------------------------------------------------------------------------
(* The theorems.                                                           *)

(* The inductive invariant: a report belongs to the call that asks while   *)
(* no attempt has ended without its answer, and what reports and commands  *)
(* on their way can say or do about the channel and the jog word.          *)
THEOREM SteelCorrect == Spec => [](TypeOK /\ SteelInv)
<1>1. Init => TypeOK /\ SteelInv
  BY TypeInit, ShapeMutexInit, AnswerInit, ChannelsInit, JogInit
  DEF SteelInv, Answer, Channels
<1>2. TypeOK /\ SteelInv /\ [Next]_vars => (TypeOK /\ SteelInv)'
  BY TypeStep, ShapeMutexStep, AnswerStep, ChannelsStep, JogStep
  DEF SteelInv, Answer, Channels
<1>  QED  BY <1>1, <1>2, PTL DEF Spec

(* Until an attempt ends without an answer, every call of get_bulk_data is *)
(* answered by a report that came in while it had bulk_request_mutex.      *)
THEOREM AnswerCorrect == Spec => []AnswerFromThisCall
<1>1. SteelInv => AnswerFromThisCall
  BY DEF SteelInv
<1>  QED  BY <1>1, SteelCorrect, PTL

(* What set_djcontrolsteel_non_volatile_data has stored and verified by a  *)
(* report sent since it began is the device's channel from then on.        *)
THEOREM StoredCorrect == Spec => []StoredAsSaid
<1>1. SteelInv => StoredAsSaid
  BY DEF SteelInv, ChanOK, StoredAsSaid
<1>  QED  BY <1>1, SteelCorrect, PTL

(* The lock and the sensitivity of the jog wheels are what the calls asked *)
(* if each found the word of the one before it reported.                   *)
THEOREM JogCorrect == Spec => []JogKeptIfReported
<1>1. SteelInv => JogKeptIfReported
  BY DEF SteelInv, JogOK, JogKeptIfReported
<1>  QED  BY <1>1, SteelCorrect, PTL
=============================================================================
