------------------------------ MODULE Anchors ------------------------------
(***************************************************************************)
(* The two readers of a unified diff: the index that says which lines a    *)
(* review comment can be anchored to (crate diffanchor), and the reader    *)
(* that looks for the evidence of an acceptance criterion among the added  *)
(* lines (looper-runner reviewer_criteria.rs).  Each counts lines in its   *)
(* own way while it reads; the diff itself is what Git could have written. *)
(* The name of a file is no suffix of another's.  looper does not join the *)
(* two: nothing but the tests calls diffanchor, and the reviewer gives the *)
(* whole diff to the reader of the criteria as one file, "full_diff".      *)
(***************************************************************************)
EXTENDS Integers, Sequences, Functions, SequencesExt

CONSTANTS
    Files,      \* the files of the diff, in this order
    MaxLines,   \* bound: lines of hunks
    MaxHunks    \* bound: hunks of the diff

ASSUME AnchorsAssumption ==
    {MaxLines, MaxHunks} \subseteq Nat /\ Files \in Seq(STRING) /\ IsInjective(Files)

VARIABLES
    text,   \* where in the diff and in the new files the reading is, and what in it misleads
    index,  \* the reader of diffanchor: path, unflushed ranges, flushed ranges
    added   \* the reader of the criteria: its line number and the matching lines

anchorVars == <<text, index, added>>

\* How a line of a hunk begins: context, and a line of context that reads as the
\* header of a hunk; an added line, and one that itself begins with "++ "; a removed
\* line, and one that itself begins with "-- "; Git's remark that no newline follows.
Signs == {"context", "likeHunk", "added", "likePath", "removed", "likeOldPath", "noNewline"}
NoPath == "none"

AnchorsInit ==
    /\ text = [file |-> 0, gone |-> FALSE, hunks |-> 0, hunk |-> 0, lines |-> 0, line |-> 0,
               slips |-> 0, headers |-> 0, strayed |-> FALSE]
    /\ index = [path |-> NoPath, open |-> <<>>, closed |-> {}]
    /\ added = [line |-> 0, found |-> <<>>]

------------------------------------------------------------------------------
(* diffanchor *)

\* "+++ path": what is open belongs to the file before.
ReadPath(path) ==
    index' = [path |-> path, open |-> <<>>, closed |-> index.closed \cup Range(index.open)]

\* Only the first of the open ranges grows, whichever hunk is read.
GrowFirst == IF index.open = <<>> THEN index.open ELSE [index.open EXCEPT ![1].end = @ + 1]

\* A hunk begins with an empty range; the old side's ranges are dropped at the end.
ReadHunk(start) ==
    index' = [index EXCEPT !.open = Append(@, [path |-> index.path, start |-> start, end |-> start])]

\* Headers are looked for in the trimmed line, so context can be one; an added line
\* can read as a path, a removed one as the path of the old file, which is skipped.
ReadBody(sign) ==
    \/ sign = "likePath" /\ ReadPath("++")
    \/ sign = "likeHunk" /\ ReadHunk(1)
    \/ sign \in {"context", "added"} /\ index' = [index EXCEPT !.open = GrowFirst]
    \/ sign \in {"removed", "likeOldPath", "noNewline"} /\ UNCHANGED index

\* Is there a range of the path with this line?  The side is not looked at: the
\* old side's lines are looked up among the new side's ranges.
ValidateAnchor(path, line) ==
    \E r \in index.closed \cup Range(index.open) : r.path = path /\ line \in r.start .. r.end

------------------------------------------------------------------------------
(* reviewer_criteria.rs *)

\* The line number moves over what does not begin with one minus; a mutant, that
\* does not move over added lines either.
CountedContext(sign) == sign \notin {"removed", "added"}
Counted(sign) == sign # "removed"

\* What the evidence says, its path and line; and where the line really is, how far
\* the number has slipped, whether a later hunk or a line before misled the index.
CollectBody(sign, matches) ==
    added' = [line  |-> IF Counted(sign) THEN added.line + 1 ELSE added.line,
              found |-> IF sign = "added" /\ matches
                        THEN Append(added.found,
                                    [path |-> "full_diff", line |-> IF added.line < 1 THEN 1 ELSE added.line,
                                     file |-> Files[text.file], true |-> text.line, slips |-> text.slips,
                                     plain |-> text.hunk = 1 /\ ~text.strayed /\ text.headers < 2])
                        ELSE added.found]

\* The first added line in which the whole criterion is found.  The tokens are
\* never compared: what is no letter or digit is filtered out before the split,
\* so there is one token, and an overlap asks for two.
Evidence == IF added.found = <<>> THEN {} ELSE {Head(added.found)}

------------------------------------------------------------------------------
(* The diff, line by line *)

\* A deleted file's new path is /dev/null, which is no path: to the index the
\* line is an added one of the file before.  The lines before a hunk move the
\* criteria's number, and the hunk sets it.
FileHeader(gone) ==
    /\ text.file < Len(Files)
    /\ text.file = 0 \/ text.hunk > 0
    /\ text' = [text EXCEPT !.file = @ + 1, !.gone = gone, !.hunk = 0, !.line = 1, !.strayed = FALSE]
    /\ IF gone THEN index' = [index EXCEPT !.open = GrowFirst] ELSE ReadPath(Files[text.file + 1])
    /\ UNCHANGED added

HunkHeader(gap) ==
    LET start == IF text.gone THEN 0 ELSE text.line + gap IN
    /\ text.file > 0 /\ text.hunks < MaxHunks
    /\ text.gone => text.hunk = 0
    /\ text' = [text EXCEPT !.hunks = @ + 1, !.hunk = @ + 1, !.line = start, !.slips = 0, !.headers = 0]
    /\ ReadHunk(start)
    /\ added' = [added EXCEPT !.line = start]

\* matches: the criterion is found in the line.
BodyLine(sign, matches) ==
    /\ text.hunk > 0 /\ text.lines < MaxLines
    /\ text.gone => sign \in {"removed", "likeOldPath", "noNewline"}
    /\ matches => sign = "added"
    /\ text' = [text EXCEPT !.lines = @ + 1,
                            !.line = IF sign \in {"context", "likeHunk", "added", "likePath"} THEN @ + 1 ELSE @,
                            !.slips = IF sign \in {"likeOldPath", "noNewline"} THEN @ + 1 ELSE @,
                            !.headers = IF sign = "likeHunk" THEN @ + 1 ELSE @,
                            !.strayed = @ \/ sign = "likePath"]
    /\ ReadBody(sign)
    /\ CollectBody(sign, matches)

AnchorsNext ==
    \/ \E gone \in BOOLEAN : FileHeader(gone)
    \/ \E gap \in {0, 2} : HunkHeader(gap)
    \/ \E sign \in Signs, matches \in BOOLEAN : BodyLine(sign, matches)

------------------------------------------------------------------------------
\* In every diff the line number of the evidence is the true one and as much too
\* large as there are, before it in its hunk, removed lines that begin with "-- "
\* and remarks about newlines (reviewer_criteria.rs 292-320).  And the index accepts
\* a comment on the line where the evidence really is, if that is in the first hunk
\* of its file, no added line before it read as a path, and at most one line of its
\* hunk read as a header: the range that the index gives ends one past the hunk, and
\* makes up for one (lib.rs 56-144).
EvidenceIsPlaced ==
    \A e \in Evidence :
        /\ e.line = e.true + e.slips
        /\ e.plain => ValidateAnchor(e.file, e.true)
==============================================================================
