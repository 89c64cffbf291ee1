---------------------------- MODULE SerialConsole ----------------------------
(***************************************************************************)
(* The pod's USB console (transport/serial.py): text commands whose reply  *)
(* ends at the next prompt, and two raw modes, SWD packets and the UART    *)
(* proxy, each entered by a command and left by quit bytes of its own.     *)
(* Both directions are queues; the pod may be slower than any timeout of   *)
(* the host.  A token is a piece of text and the number of the command it  *)
(* belongs to; 0 is no command.  One thread uses the port, and no text     *)
(* command while a raw link is open.  The link's own data is not modelled. *)
(***************************************************************************)
EXTENDS Integers, Sequences

CONSTANT MaxCommands \* bound: text commands and handshakes in a run

ASSUME ConsoleAssumption == MaxCommands \in Nat

VARIABLES
    toPod,    \* what the pod has still to read
    outbox,   \* what the pod has still to send
    toHost,   \* the host's input buffer
    raw,      \* the pod's mode: "text", a raw one, or "deaf" (SWD, out of step)
    conPc,    \* where the calling thread is
    cmds,     \* commands so far, so the number of the one under way
    rawMode,  \* the raw mode the last handshake asks for
    acc,      \* what the call has read
    late,     \* history: the pod was not done with what came before, or in a raw mode
    unquit,   \* history: raw modes whose quit could not be sent, and was not since
    answer    \* what the last text command returned

conVars == <<toPod, outbox, toHost, raw, conPc, cmds, rawMode, acc, late, unquit, answer>>
Wire == <<toPod, outbox, toHost, raw>>

Token(what, n) == [what |-> what, cmd |-> n]
RawModes == {"dap", "uart"}
QuitOf == [dap |-> "dap quit", uart |-> "uart quit"]    \* DAP_LEAVE, Ctrl-]
StartOf == [dap |-> "dap-start", uart |-> "uart-proxy"]
ReadyOf == [dap |-> "dap ready", uart |-> "uart ready"]
Kinds == {"cr", "text", "dap quit", "uart quit", "dap-start", "uart-proxy"}
Pieces == {"prompt", "angle", "out", "dap ready", "uart ready", "error", "raw"}

ConInit ==
    /\ toPod = <<>> /\ outbox = <<>> /\ toHost = <<>>
    /\ raw \in RawModes \cup {"text"}      \* an earlier program may have left it so
    /\ unquit = {raw} \ {"text"}
    /\ conPc = "idle" /\ cmds = 0 /\ rawMode = "dap" /\ acc = <<>> /\ late = FALSE
    /\ answer = <<>>

-----------------------------------------------------------------------------
(* The pod *)

Emit(tokens) == outbox' = outbox \o tokens

(* The output of a command: some text, after it a prompt, and perhaps before it a *)
(* piece that ends in ">" itself.                                                *)
TextReplies(n) ==
    {<<Token("out", n), Token("prompt", n)>>, <<Token("angle", n), Token("out", n), Token("prompt", n)>>}

(* A quit byte means nothing to the shell. *)
InText(item) ==
    \/ item.what \in {"dap quit", "uart quit"} /\ UNCHANGED <<raw, outbox>>
    \/ item.what = "cr" /\ Emit(<<Token("prompt", 0)>>) /\ UNCHANGED raw
    \/ item.what = "text" /\ (\E reply \in TextReplies(item.cmd) : Emit(reply)) /\ UNCHANGED raw
    \/ \E m \in RawModes :
          /\ item.what = StartOf[m]
          /\ \/ Emit(<<Token(ReadyOf[m], item.cmd), Token("raw", item.cmd)>>) /\ raw' = m
             \/ Emit(<<Token("error", item.cmd), Token("prompt", item.cmd)>>) /\ UNCHANGED raw

(* A raw mode is left by its own quit; all else, the other's too, is data.  Text  *)
(* among SWD packets may put the pod out of step with them, so that it takes its  *)
(* own quit for data too, or not.                                                *)
InRaw(item) ==
    \/ /\ item.what = QuitOf[IF raw = "uart" THEN "uart" ELSE "dap"]
       /\ raw' = "text" /\ Emit(<<Token("prompt", 0)>>)
    \/ /\ raw \in RawModes => item.what # QuitOf[raw]
       /\ raw' \in (IF raw = "uart" THEN {"uart"} ELSE {raw, "deaf"})
       /\ UNCHANGED outbox

PodReads ==
    /\ toPod # <<>>
    /\ toPod' = Tail(toPod)
    /\ IF raw = "text" THEN InText(Head(toPod)) ELSE InRaw(Head(toPod))
    /\ UNCHANGED <<toHost, conPc, cmds, rawMode, acc, late, unquit, answer>>

PodSends ==
    /\ outbox # <<>>
    /\ toHost' = Append(toHost, Head(outbox))
    /\ outbox' = Tail(outbox)
    /\ UNCHANGED <<toPod, raw, conPc, cmds, rawMode, acc, late, unquit, answer>>

(* The inactivity watchdog of a raw mode. *)
Watchdog ==
    /\ raw # "text" /\ raw' = "text"
    /\ Emit(<<Token("prompt", 0)>>)
    /\ UNCHANGED <<toPod, toHost, conPc, cmds, rawMode, acc, late, unquit, answer>>

-----------------------------------------------------------------------------
(* A line: a newline, a pause, the input thrown away, the command.             *)

CallText ==
    /\ conPc = "idle" /\ cmds < MaxCommands
    /\ cmds' = cmds + 1
    /\ toPod' = Append(toPod, Token("cr", 0))
    /\ conPc' = "cr"
    /\ acc' = <<>>
    /\ answer' = <<>>
    /\ UNCHANGED <<outbox, toHost, raw, rawMode, late, unquit>>

ToWrite == Token(IF conPc = "cr" THEN "text" ELSE StartOf[rawMode], cmds)

(* A plausible bug: what has arrived before is kept. *)
WriteLineKeepsInput ==
    /\ conPc \in {"cr", "rawCr"}
    /\ late' = (toPod # <<>> \/ outbox # <<>> \/ raw # "text")
    /\ toPod' = Append(toPod, ToWrite)
    /\ conPc' = IF conPc = "cr" THEN "reading" ELSE "awaiting"
    /\ UNCHANGED <<outbox, toHost, raw, cmds, rawMode, acc, unquit, answer>>

(* reset_input_buffer throws away what has arrived, and no more. *)
WriteLine ==
    /\ conPc \in {"cr", "rawCr"}
    /\ toHost' = <<>>
    /\ late' = (toPod # <<>> \/ outbox # <<>> \/ raw # "text")
    /\ toPod' = Append(toPod, ToWrite)
    /\ conPc' = IF conPc = "cr" THEN "reading" ELSE "awaiting"
    /\ UNCHANGED <<outbox, raw, cmds, rawMode, acc, unquit, answer>>

(* port.read returns some of what has arrived. *)
Chunk(n) ==
    /\ n \in 1 .. Len(toHost)
    /\ acc' = acc \o SubSeq(toHost, 1, n)
    /\ toHost' = SubSeq(toHost, n + 1, Len(toHost))

(* Any text that ends in ">" is taken for one that ends in the prompt. *)
EndsInPrompt(text) == text # <<>> /\ text[Len(text)].what \in {"prompt", "angle"}

(* _read_until_prompt looks at the end of what it has after each read. *)
ReadPrompt(n) ==
    /\ conPc = "reading"
    /\ Chunk(n)
    /\ IF EndsInPrompt(acc')
       THEN conPc' = "idle" /\ answer' = acc'
       ELSE UNCHANGED <<conPc, answer>>
    /\ UNCHANGED <<toPod, outbox, raw, cmds, rawMode, late, unquit>>

(* The timeout, or a port that fails. *)
TextFails ==
    /\ conPc \in {"cr", "reading"}
    /\ conPc' = "idle"
    /\ UNCHANGED <<Wire, cmds, rawMode, acc, late, unquit, answer>>

-----------------------------------------------------------------------------
(* _console_raw_handshake *)

Mentions(text, what) == \E i \in DOMAIN text : text[i].what = what

(* The quit of the mode m is written; a failure is ignored. *)
WriteQuit(m, sent) ==
    /\ toPod' = IF sent THEN Append(toPod, Token(QuitOf[m], 0)) ELSE toPod
    /\ unquit' = IF sent THEN unquit \ {m} ELSE unquit \cup {m}

(* ... and then the input is thrown away. *)
Quit(m, sent) ==
    /\ WriteQuit(m, sent)
    /\ toHost' = IF sent THEN <<>> ELSE toHost

CallRaw(m, sent) ==
    /\ conPc = "idle" /\ cmds < MaxCommands
    /\ cmds' = cmds + 1
    /\ rawMode' = m
    /\ Quit(m, sent)
    /\ conPc' = "quit"
    /\ acc' = <<>> /\ answer' = <<>>
    /\ UNCHANGED <<outbox, raw, late>>

RawNewline ==
    /\ conPc = "quit"
    /\ toPod' = Append(toPod, Token("cr", 0))
    /\ conPc' = "rawCr"
    /\ UNCHANGED <<outbox, toHost, raw, cmds, rawMode, acc, late, unquit, answer>>

(* The sentinel anywhere in the text opens the link; a complaint recovers. *)
AwaitReady(n) ==
    /\ conPc = "awaiting"
    /\ Chunk(n)
    /\ conPc' = CASE Mentions(acc', ReadyOf[rawMode]) -> "link"
                  [] ~Mentions(acc', ReadyOf[rawMode]) /\ Mentions(acc', "error") -> "recover"
                  [] OTHER -> conPc
    /\ UNCHANGED <<toPod, outbox, raw, cmds, rawMode, late, unquit, answer>>

HandshakeTimesOut ==
    /\ conPc = "awaiting"
    /\ conPc' = "recover"
    /\ UNCHANGED <<Wire, cmds, rawMode, acc, late, unquit, answer>>

(* _recover_and_raise *)
Recover(sent) ==
    /\ conPc = "recover"
    /\ Quit(rawMode, sent)
    /\ conPc' = "idle" /\ acc' = <<>>
    /\ UNCHANGED <<outbox, raw, cmds, rawMode, late, answer>>

(* An OSError of the port itself passes _recover_and_raise by. *)
HandshakeRaises ==
    /\ conPc \in {"quit", "rawCr", "awaiting"}
    /\ conPc' = "idle" /\ acc' = <<>>
    /\ unquit' = unquit \cup {rawMode}
    /\ UNCHANGED <<Wire, cmds, rawMode, late, answer>>

(* The raw link takes what arrives, ... *)
LinkRead ==
    /\ conPc = "link" /\ toHost # <<>>
    /\ toHost' = <<>>
    /\ UNCHANGED <<toPod, outbox, raw, conPc, cmds, rawMode, acc, late, unquit, answer>>

(* ... close() sends the quit byte, ... *)
LinkClose(sent) ==
    /\ conPc = "link"
    /\ WriteQuit(rawMode, sent)
    /\ conPc' = "idle" /\ acc' = <<>>
    /\ UNCHANGED <<outbox, toHost, raw, cmds, rawMode, late, answer>>

(* ... but not after a read failed, which marks the link closed. *)
LinkFails ==
    /\ conPc = "link"
    /\ unquit' = unquit \cup {rawMode}
    /\ conPc' = "idle" /\ acc' = <<>>
    /\ UNCHANGED <<Wire, cmds, rawMode, late, answer>>

-----------------------------------------------------------------------------
ThePod == PodReads \/ PodSends \/ Watchdog

Text == CallText \/ (\E n \in 1 .. Len(toHost) : ReadPrompt(n)) \/ TextFails

RawMode ==
    \/ \E sent \in BOOLEAN : (\E m \in RawModes : CallRaw(m, sent)) \/ Recover(sent) \/ LinkClose(sent)
    \/ \E n \in 1 .. Len(toHost) : AwaitReady(n)
    \/ RawNewline \/ HandshakeTimesOut \/ HandshakeRaises \/ LinkRead \/ LinkFails

ConNext == ThePod \/ WriteLine \/ Text \/ RawMode

ConSpec == ConInit /\ [][ConNext]_conVars

-----------------------------------------------------------------------------
Tokens == [what : Kinds \cup Pieces, cmd : 0 .. MaxCommands]

ConTypeOK ==
    /\ toPod \in Seq(Tokens) /\ outbox \in Seq(Tokens) /\ toHost \in Seq(Tokens)
    /\ acc \in Seq(Tokens) /\ answer \in Seq(Tokens)
    /\ raw \in RawModes \cup {"text", "deaf"} /\ rawMode \in RawModes
    /\ late \in BOOLEAN /\ unquit \subseteq RawModes
    /\ conPc \in {"idle", "cr", "reading", "quit", "rawCr", "awaiting", "recover", "link"}
    /\ cmds \in 0 .. MaxCommands

(* A text command returns its own output and nothing else, from its beginning, *)
(* and whole but for a cut after a piece that ends in ">": what an earlier      *)
(* command that timed out, or was cut, left behind is never taken for it,       *)
(* unless the pod was busy or in a raw mode when the input was thrown away.     *)
(* The docstring of _read_until_prompt promises the whole answer, "until the    *)
(* trailing "> " prompt"; the test is the last character's only.                *)
AnswerIsOwn ==
    answer # <<>> /\ ~late => answer \in TextReplies(cmds) \cup {<<Token("angle", cmds)>>}

(* The pod may be in the mode m when it has read what is on its way, and if     *)
(* nothing more comes.                                                         *)
MayEndIn(m) ==
    LET quits == {i \in DOMAIN toPod : toPod[i].what = QuitOf[m]}
    IN  \/ raw = m /\ quits = {}
        \/ \E i \in DOMAIN toPod : toPod[i].what = StartOf[m] /\ \A j \in quits : j <= i

(* Between two calls the pod is on its way to no raw mode but one whose quit    *)
(* could not be sent, on a port that failed, since: whatever handshakes timed   *)
(* out or were refused, of whichever mode, and however late the pod enters it   *)
(* (the docstring of _console_raw_handshake says why the quit is sent).  A pod  *)
(* left in such a mode is not brought back by the other mode's handshake, whose *)
(* quit byte is another; one out of step with its packets ("deaf") is not known *)
(* to leave at all, and no claim is made of it.                                 *)
NotWedged == conPc = "idle" => \A m \in RawModes \ unquit : ~MayEndIn(m)

ConInv == ConTypeOK /\ AnswerIsOwn /\ NotWedged
=============================================================================
