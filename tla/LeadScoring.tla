------------------------------- MODULE LeadScoring -------------------------------
(***************************************************************************)
(* The rule-based score of a contact (AIService.score_lead_rule_based).    *)
(* The rules look for keywords anywhere in a title, so that a title has    *)
(* the keywords that it contains as a part of a word: "director" contains  *)
(* "cto", and so do "contractor", "inspector" and "factory worker".        *)
(* A contact changes by a PATCH of one field.                              *)
(***************************************************************************)
EXTENDS Integers

VARIABLE lead       \* the fields of a contact that the rules read

leadVars == <<lead>>

Titles == {"none", "ceo", "director", "vice president", "vp", "head of", "manager",
           "senior analyst", "engineer", "clerk", "contractor", "doctor", "product owner",
           "lead generation intern"}
Tags == {"newsletter", "webinar", "pricing"}
Sources == {"none", "referral", "social", "other"}
LeadStages == {"inactive", "churned", "lead", "qualified", "opportunity", "customer"}

Lead == [title : Titles, company : BOOLEAN, tags : SUBSET Tags, source : Sources,
         stage : LeadStages, email : BOOLEAN, phone : BOOLEAN]

LeadTypeOK == lead \in Lead

\* The keywords that a title contains.
Keywords(title) ==
    CASE title = "director" -> {"director", "cto"}
      [] title = "vice president" -> {"vice president", "president"}
      [] title = "senior analyst" -> {"senior", "analyst"}
      [] title \in {"contractor", "doctor"} -> {"cto"}
      [] title = "product owner" -> {"owner"}
      [] title = "lead generation intern" -> {"lead"}
      [] OTHER -> {title}

Executive == {"ceo", "cto", "president", "owner"}

\* The groups of titles, the first that has a keyword counts.
TitleScore(title) ==
    CASE Keywords(title) \cap Executive # {} -> 25
      [] Keywords(title) \cap Executive = {}
            /\ Keywords(title) \cap {"director", "vp", "vice president", "head of"} # {} -> 20
      [] title \in {"manager", "senior analyst", "lead generation intern"} -> 15
      [] title = "engineer" -> 10
      [] OTHER -> 0

TagScore(tags) ==
    (IF "newsletter" \in tags THEN 15 ELSE 0) + (IF "webinar" \in tags THEN 20 ELSE 0)
        + (IF "pricing" \in tags THEN 25 ELSE 0)

SourceScore(source) ==
    CASE source = "referral" -> 15 [] source = "social" -> 10
      [] source = "other" -> 5 [] source = "none" -> 0

\* Mutant: two stages have each other's weight.
StageScoreSwapped(stage) ==
    CASE stage = "inactive" -> -20 [] stage = "churned" -> -10 [] stage = "lead" -> 0
      [] stage = "qualified" -> 30 [] stage = "opportunity" -> 20 [] stage = "customer" -> 40

StageScore(stage) ==
    CASE stage = "inactive" -> -20 [] stage = "churned" -> -10 [] stage = "lead" -> 0
      [] stage = "qualified" -> 20 [] stage = "opportunity" -> 30 [] stage = "customer" -> 40

Penalty(l) == (IF l.email THEN 0 ELSE 10) + (IF l.phone THEN 0 ELSE 5)

RawScore(l) == TitleScore(l.title) + (IF l.company THEN 10 ELSE 0) + TagScore(l.tags)
    + SourceScore(l.source) + StageScore(l.stage) - Penalty(l)

\* The score is kept between 0 and 100.
Score(l) == IF RawScore(l) < 0 THEN 0 ELSE IF RawScore(l) > 100 THEN 100 ELSE RawScore(l)

Tier(l) == IF Score(l) >= 70 THEN "hot" ELSE IF Score(l) >= 40 THEN "warm" ELSE "cold"

-----------------------------------------------------------------------------
LeadInit == lead = [title |-> "none", company |-> FALSE, tags |-> {}, source |-> "none",
                    stage |-> "lead", email |-> FALSE, phone |-> FALSE]

\* A PATCH of one field.
Set(field, values) == \E v \in values : lead' = [lead EXCEPT ![field] = v]

LeadNext ==
    \/ Set("title", Titles) \/ Set("tags", SUBSET Tags) \/ Set("source", Sources)
    \/ Set("stage", LeadStages) \/ \E field \in {"company", "email", "phone"} : Set(field, BOOLEAN)

LeadSpec == LeadInit /\ [][LeadNext]_leadVars

-----------------------------------------------------------------------------
\* What the words of a title say of its rank, and the titles of no rank that a rule
\* takes for a higher one's, for a keyword within a word or in another sense.
Seniority(title) ==
    CASE title = "ceo" -> 4 [] title \in {"vice president", "vp", "director", "head of"} -> 3
      [] title \in {"manager", "senior analyst"} -> 2 [] title = "engineer" -> 1 [] OTHER -> 0
Misread == {"contractor", "doctor", "product owner", "lead generation intern"}

StageRank(stage) ==
    CASE stage = "inactive" -> 0 [] stage = "churned" -> 1 [] stage = "lead" -> 2
      [] stage = "qualified" -> 3 [] stage = "opportunity" -> 4 [] stage = "customer" -> 5

Warmth(l) == CASE Tier(l) = "hot" -> 2 [] Tier(l) = "warm" -> 1 [] Tier(l) = "cold" -> 0

\* A contact that has reached a later stage, a further tag or a more senior title,
\* all else equal, has no lower score and no colder tier, wherever the bounds cut.
\* The exception are the titles that the rules misread: who is promoted from
\* contractor to manager scores less than before.  Such a promotion costs at most
\* the 15 points that lie between an executive's title and the lowest that scores.
MoreIsNotLess == [][
    /\ \A f \in DOMAIN lead \ {"stage", "title", "tags"} : lead[f] = lead'[f]
    /\ StageRank(lead.stage) <= StageRank(lead'.stage)
    /\ lead.title = lead'.title \/ Seniority(lead.title) < Seniority(lead'.title)
    /\ lead.tags \subseteq lead'.tags
    => IF lead.title = lead'.title \/ lead.title \notin Misread
       THEN Score(lead) <= Score(lead') /\ Warmth(lead) <= Warmth(lead')
       ELSE Score(lead) <= Score(lead') + 15]_leadVars
=============================================================================
