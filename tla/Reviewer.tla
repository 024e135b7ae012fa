------------------------------- MODULE Reviewer -------------------------------
(***************************************************************************)
(* orchestrator/reviewer.py: what Codex answers about a diff, what the     *)
(* parser makes of it and what cto_evaluate decides.  All of it is pure.   *)
(* A reply is its verdict, its confidence and the findings that its text   *)
(* states, in the format that the prompt asks for or not quite in it.      *)
(***************************************************************************)
EXTENDS Naturals, SequencesExt

CONSTANTS
    Threshold,    \* review.auto_approve_threshold, in tenths
    Escalated,    \* review.require_human_review_labels
    Confidences,  \* confidences a reply states, in tenths
    Categories,   \* categories of findings
    MaxFindings   \* bound on the findings of a reply

ASSUME ReviewerAssumption == Threshold \in Nat /\ MaxFindings \in Nat

Verdicts == {"APPROVE", "REQUEST_CHANGES", "NEEDS_HUMAN_REVIEW"}

\* "major" counts as critical; "suggestion", and any other word, as minor
Severities == {"critical", "minor"}

(* A finding as the reply states it.  It may begin with another bullet     *)
(* than "- severity:", and some of its lines may be missing.               *)
Stated == [bullet : BOOLEAN, severity : Severities, category : Categories,
           lacks : {"nothing", "description", "category", "place"}]

(* The findings stand under "FINDINGS:", under another title, or somewhere *)
(* in the text it says "FINDINGS: none".                                   *)
Replies == [verdict : Verdicts, confidence : Confidences,
            title : {"FINDINGS:", "other", "FINDINGS: none"},
            findings : UNION {[1 .. n -> Stated] : n \in 0 .. MaxFindings}]

(* What a review starts from: the diff, and what becomes of "codex exec". *)
Inputs == [diff : {"empty"}] \cup [diff : {"short", "truncated"}, codex : {"fails"}]
            \cup [diff : {"short", "truncated"}, codex : {"replies"}, reply : Replies]

-----------------------------------------------------------------------------
(* _parse_findings: "current" is the set of the fields read since the last *)
(* "- severity:", each with its value.                                     *)

LinesOf(f) == (IF f.lacks = "category" THEN {} ELSE {<<"category", f.category>>})
              \cup ({<<"place", "">>, <<"description", "">>} \ {<<f.lacks, "">>})

Has(current, field) == \E x \in current : x[1] = field
Complete(current) ==
    \A field \in {"severity", "category", "place", "description"} : Has(current, field)

Overwritten(current, lines) ==
    {x \in current : ~Has(lines, x[1])} \cup lines

(* ReviewFinding is made of these fields and raises TypeError when one is  *)
(* missing.                                                                *)
Begun(parse, f) ==
    [current  |-> {<<"severity", f.severity>>},
     findings |-> IF parse.current = {} THEN parse.findings
                  ELSE parse.findings \cup {parse.current},
     raised   |-> parse.raised \/ (parse.current # {} /\ ~Complete(parse.current))]

(* A bullet that is not recognised begins no finding, and the lines after  *)
(* it are taken for lines of the one before.                               *)
Read(parse, f) ==
    LET begun == IF f.bullet THEN Begun(parse, f) ELSE parse
    IN  [begun EXCEPT !.current = Overwritten(@, LinesOf(f))]

(* The last finding gets defaults, and is dropped when it has no severity  *)
(* or no description.                                                      *)
Closed(parse) ==
    IF Has(parse.current, "severity") /\ Has(parse.current, "description")
    THEN [parse EXCEPT !.findings = @ \cup
            {IF Has(parse.current, "category") THEN parse.current
             ELSE parse.current \cup {<<"category", "style">>}}]
    ELSE parse

ParseFindings(reply) ==
    LET empty == [current |-> {}, findings |-> {}, raised |-> FALSE]
    IN  IF reply.title = "FINDINGS:" THEN Closed(FoldLeft(Read, empty, reply.findings))
        ELSE empty

-----------------------------------------------------------------------------
Lowered(confidence) == IF confidence = 0 THEN 0 ELSE confidence - 1

RunCodexReview(x) ==
    CASE x.diff = "empty"   -> [verdict |-> "APPROVE", confidence |-> 10, findings |-> {}]
      [] x.codex = "fails"  -> [verdict |-> "NEEDS_HUMAN_REVIEW", confidence |-> 0, findings |-> {}]
      [] OTHER -> [verdict |-> x.reply.verdict, findings |-> ParseFindings(x.reply).findings,
                   confidence |-> IF x.diff = "truncated" THEN Lowered(x.reply.confidence)
                                  ELSE x.reply.confidence]

Confident(review) == review.confidence >= Threshold
ForAPerson(finding) == \E c \in Escalated : <<"category", c>> \in finding
IsCritical(finding) == <<"severity", "critical">> \in finding


(* The order of the rules matters: the first that applies decides. *)
CtoEvaluate(review) ==
    IF review.findings = {} /\ Confident(review) THEN "APPROVE"
    ELSE IF \E f \in review.findings : ForAPerson(f) THEN "NEEDS_HUMAN_REVIEW"
    ELSE IF \E f \in review.findings : IsCritical(f) THEN "REQUEST_CHANGES"
    ELSE review.verdict   \* an approval is returned whatever its confidence

(* The daemon notes the decision, or that the review failed. *)
Decision(x) ==
    IF x.diff # "empty" /\ x.codex = "replies" /\ ParseFindings(x.reply).raised
    THEN "skipped"
    ELSE CtoEvaluate(RunCodexReview(x))
===============================================================================
