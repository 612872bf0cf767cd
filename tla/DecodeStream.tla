---------------------------- MODULE DecodeStream ----------------------------
(***************************************************************************)
(* A body decoded piece by piece: the caller shows the kernel of module    *)
(* DecodeGeneric a growing part of the input, drops what each call         *)
(* consumed and passes the State on, as Response.decodeYenc and            *)
(* feedUntilDone do.  Wherever the input is cut, the result must be that   *)
(* of reading it one character at a time, which Transition defines.        *)
(***************************************************************************)
EXTENDS Bodies

VARIABLES
  input,     \* the body being decoded
  shown,     \* how much of it the caller has shown to the kernel
  consumed,  \* how much of it the kernel has consumed
  pState,    \* the State the last call returned
  decoded,   \* what has been decoded
  end,       \* the End the last call returned
  running,   \* a call of the kernel is under way
  k          \* its configuration

vars == <<input, shown, consumed, pState, decoded, end, running, k>>

-----------------------------------------------------------------------------
\* The slice the kernel is working on.
Src == SubSeq(input, consumed + 1, shown)

\* Response.state is its zero value, StateCRLF, when the body begins.
Init ==
  /\ input \in Inputs
  /\ shown = 0 /\ consumed = 0
  /\ pState = "CRLF" /\ decoded = <<>> /\ end = "none"
  /\ running = FALSE
  /\ k = Enter(<<>>, "CRLF")

\* More of the body has arrived: the kernel is called on all that is unread.
Show(n) ==
  /\ ~running /\ end = "none"
  /\ shown + n <= Len(input)
  /\ shown' = shown + n
  /\ k' = Enter(SubSeq(input, consumed + 1, shown + n), pState)
  /\ running' = TRUE
  /\ UNCHANGED <<input, consumed, pState, decoded, end>>

KernelStep ==
  /\ running /\ k.at # "done"
  /\ k' = Step(Src, k)
  /\ UNCHANGED <<input, shown, consumed, pState, decoded, end, running>>

\* The call returns and the caller keeps what it says.
KernelReturn ==
  /\ running /\ k.at = "done"
  /\ consumed' = consumed + k.pos
  /\ decoded' = decoded \o k.out
  /\ pState' = k.state
  /\ end' = k.end
  /\ running' = FALSE
  /\ k' = Enter(<<>>, k.state)
  /\ UNCHANGED <<input, shown>>

Next ==
  \/ \E n \in 1..Len(input) : Show(n)
  \/ KernelStep
  \/ KernelReturn

\* The kernel is sequential code and runs on; so does a caller that has input.
Spec == Init /\ [][Next]_vars /\ WF_vars(Next)

-----------------------------------------------------------------------------
\* The types of the variables; a label at the start of src has a character to
\* look at.
TypeOK ==
  /\ input \in Inputs
  /\ consumed \in 0..shown /\ shown \in 0..Len(input)
  /\ pState \in States /\ end \in Ends
  /\ decoded \in Seq(Byte)
  /\ running \in BOOLEAN
  /\ k \in Config

\* The kernel never produces more than it consumes, nor runs past its slice:
\* what lets ensureData give it a destination as long as the source, and
\* labels read src[pos] without a test (decoder_generic.go).
StaysInBounds ==
  running =>
    /\ Len(k.out) <= k.pos /\ k.pos <= Len(Src)
    /\ k.at \in States \ {"NONE"} => k.pos < Len(Src)

\* Between calls the data, the State and whether the end has been met are
\* those of reading what has been shown character by character: no cut of the
\* input through a line end, an escape, a dot or a terminator shows in the
\* result.  (A line end left unread counts as read: its State is CRLF.)
SameAsReference ==
  ~running =>
    LET t == Trace[input][IF end = "none" THEN shown ELSE consumed] IN
    decoded = t.out /\ end = t.end /\ pState = t.state

\* The kernel stops at the first end of the data and not behind it: what
\* follows is for the line parser.
StopsAtTheEnd ==
  ~running => \A n \in 0..consumed-1 : Trace[input][n].end = "none"

\* What a call leaves unread, when it has not met the end, is nothing or the
\* two characters of a line end; feedUntilDone must then get it more than
\* those two, or it would ask for the same again.
UnreadIsLineEnd ==
  ~running /\ end = "none" =>
    \/ consumed = shown
    \/ SubSeq(input, consumed + 1, shown) = <<CR, LF>> /\ pState = "CRLF"

\* Every step back in the loop is made up for: the whole body is decoded, up
\* to its end or to a line end that nothing follows.
DecodesAll ==
  <>(/\ ~running
     /\ \/ end # "none"
        \/ /\ shown = Len(input)
           /\ SubSeq(input, consumed + 1, shown) \in {<<>>, <<CR, LF>>})
=============================================================================
