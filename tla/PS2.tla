-------------------------------- MODULE PS2 --------------------------------
(***************************************************************************)
(* Keyboard input of LakeOS (kernel/src/ps2.c): the interrupt handler puts *)
(* the last scan code into the global `keycode', and PS2_read polls it     *)
(* between two `hlt' instructions.  The kernel is compiled with -O0, so    *)
(* every mention of keycode in the code is a load or a store of its own,   *)
(* and an interrupt can come between any two of them.                      *)
(***************************************************************************)
EXTENDS Integers, Sequences

CONSTANTS PS2_STDIN_SIZE,
          InterruptsOn, \* the CPU's interrupt flag while PS2_read runs
          MaxKeys      \* bound: scan codes the user sends

ASSUME PS2Assumption ==
  PS2_STDIN_SIZE \in Nat \ {0} /\ InterruptsOn \in BOOLEAN /\ MaxKeys \in Nat

VARIABLES
  keycode,    \* shared by the handler and the reader
  ps2_stdin,  \* the characters in the buffer, each named by when it was typed
  masked,     \* the keyboard's bit in the PIC's mask
  port,       \* the byte in the keyboard controller's output buffer
  typed,      \* number of scan codes sent so far
  reader,         \* where PS2_read is; "idle" when nobody reads
  wild        \* KEYBOARD_MAP has been read out of its bounds

keyboardVars == <<keycode, ps2_stdin, masked, port, typed, reader, wild>>

(***************************************************************************)
(* Scan codes by what the code does with them.  A "char" has a nonzero     *)
(* entry in KEYBOARD_MAP, "shift" stands for the codes whose entry is 0,   *)
(* "last" is 0x58, which passes the range test but is one past the end of  *)
(* KEYBOARD_MAP[0x58], "high" is larger still, and "release" has its top   *)
(* bit set: as a char it is negative.                                      *)
(***************************************************************************)
Kinds == {"char", "shift", "backspace", "enter", "last", "high", "release"}

NoKey == [kind |-> "none", id |-> 0]
Code(k) == [kind |-> k, id |-> typed + 1]

Positive(c) == c.kind \notin {"none", "release"}   \* 0 < keycode
AtMost58(c) == c.kind # "high"                     \* keycode <= 0x58, signed
InMap(c)    == c.kind \notin {"last", "high", "release"}

-----------------------------------------------------------------------------
(* The keyboard and its interrupt                                          *)

\* The user presses or releases a key.  The controller keeps one byte until
\* it is read.
Press(k) ==
  /\ port = NoKey
  /\ typed < MaxKeys
  /\ port' = Code(k)
  /\ typed' = typed + 1
  /\ UNCHANGED <<keycode, ps2_stdin, masked, reader, wild>>

\* hlt ends with the next interrupt that arrives, whichever it is.  One that
\* came before hlt is executed does not end it.
Wake == reader' = IF reader = "hlt" THEN "positive" ELSE reader

\* Runs with interrupts disabled (interrupt gate), hence in one step.
IRQ_keyboard_handler ==
  /\ InterruptsOn /\ ~masked
  /\ port # NoKey
  /\ keycode' = port
  /\ port' = NoKey
  /\ Wake
  /\ UNCHANGED <<ps2_stdin, masked, typed, wild>>

\* The timer's interrupt, whose only effect here is to end hlt.
IRQ_time_handler ==
  /\ InterruptsOn
  /\ reader = "hlt"
  /\ Wake
  /\ UNCHANGED <<keycode, ps2_stdin, masked, port, typed, wild>>

-----------------------------------------------------------------------------
(* PS2_read, load by load                                                  *)

Steps(from, to) == reader = from /\ reader' = to

\* Wrong on purpose: the keyboard's interrupt stays masked.
PS2_read_masked ==
  /\ Steps("idle", "test")
  /\ UNCHANGED <<keycode, ps2_stdin, masked, port, typed, wild>>

PS2_read ==
  /\ Steps("idle", "test")
  /\ masked' = FALSE                            \* PIC_unmask
  /\ UNCHANGED <<keycode, ps2_stdin, port, typed, wild>>

\* while (keycode != PS2_ENTER)
Test ==
  /\ IF keycode.kind = "enter" THEN Steps("test", "done") ELSE Steps("test", "halt")
  /\ UNCHANGED <<keycode, ps2_stdin, masked, port, typed, wild>>

\* The instruction after the test: whatever came in between is not looked at
\* again before the CPU stops.
Halt ==
  /\ Steps("halt", "hlt")
  /\ UNCHANGED <<keycode, ps2_stdin, masked, port, typed, wild>>

\* 0 < keycode
TestPositive ==
  /\ IF Positive(keycode) THEN Steps("positive", "range") ELSE Steps("positive", "test")
  /\ UNCHANGED <<keycode, ps2_stdin, masked, port, typed, wild>>

\* keycode <= 0x58, a comparison of signed chars
TestRange ==
  /\ IF AtMost58(keycode) THEN Steps("range", "backspace") ELSE Steps("range", "test")
  /\ UNCHANGED <<keycode, ps2_stdin, masked, port, typed, wild>>

TestBackspace ==
  /\ IF keycode.kind = "backspace"
     THEN IF ps2_stdin # <<>>
          THEN /\ Steps("backspace", "reset")
               /\ ps2_stdin' = SubSeq(ps2_stdin, 1, Len(ps2_stdin) - 1)
          ELSE Steps("backspace", "test") /\ UNCHANGED ps2_stdin
     ELSE Steps("backspace", "lookup") /\ UNCHANGED ps2_stdin
  /\ UNCHANGED <<keycode, masked, port, typed, wild>>

HasRoom == Len(ps2_stdin) < PS2_STDIN_SIZE

Enters(id) == Steps("lookup", "reset") /\ ps2_stdin' = Append(ps2_stdin, id)

\* c = KEYBOARD_MAP[keycode]; what lies outside of the map may be any byte.
Lookup ==
  /\ \/ keycode.kind = "char" /\ HasRoom /\ Enters(keycode.id)
     \/ ~InMap(keycode) /\ HasRoom /\ Enters(0)
     \/ /\ keycode.kind # "char" \/ ~HasRoom
        /\ Steps("lookup", "test") /\ UNCHANGED ps2_stdin
  /\ wild' = (wild \/ ~InMap(keycode))
  /\ UNCHANGED <<keycode, masked, port, typed>>

ClearTo(from, to) ==
  /\ Steps(from, to)
  /\ keycode' = NoKey
  /\ UNCHANGED <<ps2_stdin, masked, port, typed, wild>>

\* Wrong on purpose: the code that was dealt with stays in keycode.
ResetNothing ==
  /\ Steps("reset", "test")
  /\ UNCHANGED <<keycode, ps2_stdin, masked, port, typed, wild>>

Reset == ClearTo("reset", "test")
Ended == ClearTo("done", "mask")

Mask ==
  /\ Steps("mask", "idle")
  /\ masked' = TRUE                             \* PIC_mask
  /\ UNCHANGED <<keycode, ps2_stdin, port, typed, wild>>

\* PS2_read_bytes copies what PS2_read returns and leaves the buffer as it is.
PS2_flush ==
  /\ reader = "idle"
  /\ ps2_stdin' = <<>>
  /\ UNCHANGED <<keycode, masked, port, typed, reader, wild>>

KeyboardInit ==
  /\ keycode = NoKey /\ ps2_stdin = <<>> /\ masked = TRUE /\ port = NoKey
  /\ typed = 0 /\ reader = "idle" /\ wild = FALSE

Reader == \/ Test \/ Halt \/ TestPositive \/ TestRange \/ TestBackspace \/ Lookup
          \/ Reset \/ Ended \/ Mask

KeyboardNext == \/ \E k \in Kinds : Press(k)
        \/ IRQ_keyboard_handler \/ IRQ_time_handler
        \/ PS2_read \/ PS2_flush \/ Reader

\* The reader is a loop that the CPU executes, a pending interrupt that is not
\* masked is delivered, and the timer, which PIT_init has started and nobody
\* masks, goes on ticking.  No key has to be pressed and nobody has to call
\* PS2_read.
KeyboardFairness == /\ WF_keyboardVars(Reader)
            /\ WF_keyboardVars(IRQ_keyboard_handler)
            /\ WF_keyboardVars(IRQ_time_handler)

KeyboardSpec == KeyboardInit /\ [][KeyboardNext]_keyboardVars /\ KeyboardFairness

-----------------------------------------------------------------------------
(* Properties                                                              *)

\* However interrupts and the polling loop interleave, the characters in the
\* buffer are in the order in which they were typed and none is there twice
\* (0 names a byte that did not come from KEYBOARD_MAP).  They are never more
\* than ps2_stdin has room for.
InTypingOrder ==
  /\ Len(ps2_stdin) <= PS2_STDIN_SIZE
  /\ \A i, j \in 1 .. Len(ps2_stdin) :
       i < j /\ ps2_stdin[i] # 0 /\ ps2_stdin[j] # 0 => ps2_stdin[i] < ps2_stdin[j]

\* One ENTER is enough (`returns stdin after reading input'): also when it
\* comes between the test of keycode and hlt, where its interrupt wakes nobody,
\* the call of PS2_read ends.  There are two ways to lose it: another key
\* follows and takes its place, or it comes before `keycode = 0' of a
\* character that was just dealt with.
ReadReturns ==
  reader # "idle" /\ "enter" \in {port.kind, keycode.kind}
    ~> reader \in {"idle", "reset"} \/ port.kind \notin {"none", "enter"}

\* `size of the internal PS2 stdin buffer': the characters and the terminating
\* zero that strncat writes behind them fit into ps2_stdin.
BufferFits == Len(ps2_stdin) + 1 <= PS2_STDIN_SIZE

\* `if (0 < keycode && keycode <= 0x58)' guards the index into KEYBOARD_MAP.
IndexInMap == ~wild
=============================================================================
