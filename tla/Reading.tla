-------------------------------- MODULE Reading --------------------------------
(***************************************************************************)
(* How a react agent reads an observation that is longer than the prompt   *)
(* shows of it (core/context.py, ContextPolicy(offload=True)): the prompt  *)
(* has the first inline_chars of each step and says how to read more; a    *)
(* read is a step of its own, with a text that may be too long in turn.    *)
(*                                                                         *)
(* Texts are sequences of cells, a cell standing for a stretch of about a  *)
(* header's length: of the document, of a read's header, or a whole hint.  *)
(*                                                                         *)
(* Left out: obs_text encodes a text as JSON each time, so that the quotes *)
(* and backslashes in a read of a read take more characters than before.   *)
(* A cell stays one cell: an escape sequence that a window cuts in two,    *)
(* and a stretch that grows beyond a window, are below this abstraction.   *)
(***************************************************************************)
EXTENDS Naturals, Sequences, FiniteSets, Functions

CONSTANTS
  InlineChars,  \* cells of a step's text the prompt shows
  MinHalf,      \* cells before a hit a find shows at least: 100 characters
  DocLength,    \* cells of the document
  Hits,         \* the cells where the word the model may look for appears
  Keeps,        \* values of keep_recent, large enough for None
  MaxSteps

(* obs_text is a JSON text: never empty.                                   *)
ASSUME ReadingAssumption ==
  /\ InlineChars \in Nat \ {0} /\ MinHalf \in Nat \ {0} /\ DocLength \in Nat \ {0}
  /\ Hits \subseteq 1 .. DocLength /\ Keeps \subseteq Nat /\ MaxSteps \in Nat

VARIABLES
  keep,   \* keep_recent
  steps,  \* the scratchpad: [text, read], read being the pointer followed
  seen    \* ghost: the cells shown in a prompt so far

readingVars == <<keep, steps, seen>>

Doc(i) == [type |-> "doc", step |-> 0, at |-> i]
Header == [type |-> "header", step |-> 0, at |-> 0]
EndMark == [type |-> "end", step |-> 0, at |-> 0]

(* "read_observation(step=.., offset=..)", wherever it stands in a prompt. *)
Pointer(step, offset) == [type |-> "pointer", step |-> step, at |-> offset]
NoPointer == Pointer(0, 0)
Word == Pointer(0, 1)   \* what a find is recorded as

Least(a, b) == IF a < b THEN a ELSE b
Most(a, b) == IF a < b THEN b ELSE a

Document == [i \in 1 .. DocLength |-> Doc(i)]

-----------------------------------------------------------------------------
(* The prompt                                                              *)

(* Mutant: the pointer skips a cell.                                       *)
MoreAfterNext(i) == Pointer(i, InlineChars + 1)

MoreOf(i) == Pointer(i, InlineChars)

(* render_steps: what step i shows.                                        *)
Body(ss, i) ==
  LET text == ss[i].text IN
  IF i + keep <= Len(ss) THEN <<Pointer(i, 0)>>
  ELSE IF Len(text) > InlineChars THEN Append(SubSeq(text, 1, InlineChars), MoreOf(i))
  ELSE text

Prompt(ss) == UNION {Range(Body(ss, i)) : i \in DOMAIN ss}

Visible == {c \in Prompt(steps) : c.type = "pointer"}
Followed == {steps[i].read : i \in DOMAIN steps}

-----------------------------------------------------------------------------
(* Reading                                                                 *)

(* Mutant: one cell of the text is left out between two reads.             *)
NextWindowSkips(step, end) == Pointer(step, end + 1)

NextWindow(step, end) == Pointer(step, end)

(* run_harness_tool, read_observation(step, offset).                       *)
ReadText(step, offset) ==
  LET text == steps[step].text
      end == Least(offset + InlineChars, Len(text)) IN
  <<Header>> \o SubSeq(text, offset + 1, end)
    \o <<IF end < Len(text) THEN NextWindow(step, end) ELSE EndMark>>

(* read_observation(step, find=..): windows around the first three hits.   *)
Around(text, h, half) ==
  SubSeq(text, IF h > half THEN h - half ELSE 1, Least(h + half - 1, Len(text)))

FirstOf(hits) == CHOOSE h \in hits : \A g \in hits : h <= g
After(hits) == {h \in hits : \E g \in hits : g < h}

FindText(step) ==
  LET text == steps[step].text
      hits == {i \in DOMAIN text : text[i].type = "doc" /\ text[i].at \in Hits}
      half == Most(MinHalf, InlineChars \div (2 * Least(3, Cardinality(hits))))
      Window(hs) == IF hs = {} THEN <<>> ELSE Around(text, FirstOf(hs), half) IN
  <<Header>> \o Window(hits) \o Window(After(hits)) \o Window(After(After(hits)))

-----------------------------------------------------------------------------
Record(text, read) ==
  /\ Len(steps) < MaxSteps
  /\ steps' = Append(steps, [text |-> text, read |-> read])
  /\ seen' = seen \cup Prompt(steps')
  /\ UNCHANGED keep

ReadingInit == keep \in Keeps /\ steps = <<>> /\ seen = {}

Fetch == steps = <<>> /\ Record(Document, NoPointer)

(* The model does what a pointer in its prompt says, once.                 *)
Follow == \E p \in Visible \ Followed : Record(ReadText(p.step, p.at), p)

(* It looks for a word at most once: a bound.                              *)
Find ==
  /\ Word \notin Followed
  /\ \E i \in DOMAIN steps : Record(FindText(i), Word)

ReadingNext == Fetch \/ Follow \/ Find

(* A model that follows the pointers it is shown.                          *)
ReadingSpec ==
  ReadingInit /\ [][ReadingNext]_readingVars /\ WF_readingVars(Fetch) /\ SF_readingVars(Follow)

-----------------------------------------------------------------------------
Cell == [type : {"doc", "header", "end", "pointer"}, step : Nat, at : Nat]
PointerCell == {c \in Cell : c.type = "pointer"}

ReadingTypeOK ==
  /\ keep \in Keeps
  /\ steps \in Seq([text : Seq(Cell), read : PointerCell]) /\ Len(steps) <= MaxSteps
  /\ seen \subseteq Cell

AllSeen == \A i \in 1 .. DocLength : Doc(i) \in seen

(* Every pointer in a prompt names a step there is and text there is left  *)
(* to read in it, also when the step is itself a read, or a read of one    *)
(* (render_steps, run_harness_tool).                                       *)
PointersWork ==
  \A p \in Visible : p.step \in DOMAIN steps /\ p.at < Len(steps[p.step].text)

(* The pointers a model comes to that starts from those it is shown and    *)
(* has not followed: each leads through the rest of a text.                *)
Covered(p) == {steps[p.step].text[j] : j \in p.at + 1 .. Len(steps[p.step].text)}

Ahead(ps) == ps \cup {c \in UNION {Covered(p) : p \in ps} : c.type = "pointer"}

Reached[n \in Nat] == IF n = 0 THEN Visible \ Followed ELSE Ahead(Reached[n - 1])

Reach == Reached[Len(steps)]

(* Whatever of the document no prompt has shown is ahead of some pointer   *)
(* the model has yet to follow, in steps that were cut off or cleared, in  *)
(* reads of them and in finds: nothing is cut off without a way to it, and *)
(* no way shown leads nowhere (offsets of render_steps and of a read's own *)
(* continuation).                                                          *)
NothingIsHidden ==
  steps # <<>> =>
    /\ PointersWork
    /\ \A i \in 1 .. DocLength :
         Doc(i) \in seen \/ \E p \in Reach : Doc(i) \in Covered(p)

(* Where nothing is cleared, following pointers comes to the end of the    *)
(* document, before the cap of the bounds: a read that is cut off in its   *)
(* turn does not lead to reads without end. That takes a window of four    *)
(* cells: a header, a hint and the end mark beside a chunk's last cell.    *)
ReadingEnds == <>(keep < MaxSteps \/ AllSeen)

(* "Say exactly what to call next: a real model re-read the *read          *)
(* result's* step number": the prompt after a read that has not reached    *)
(* the end names the step that was read and where to go on.                *)
SaysWhatIsNext ==
  steps # <<>> =>
    LET p == steps[Len(steps)].read IN
    p.step # 0 /\ p.at + InlineChars < Len(steps[p.step].text) =>
      Pointer(p.step, p.at + InlineChars) \in Visible
=============================================================================
