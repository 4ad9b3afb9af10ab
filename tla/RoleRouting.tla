----------------------------- MODULE RoleRouting -----------------------------
(***************************************************************************)
(* Which resume a posting is screened and applied with: load_role_profiles *)
(* (resume/roles.py), route_and_screen (hr_agent.py) and the lookup in     *)
(* apply_to_passing_postings (pipeline.py), for one posting.  A resume is  *)
(* its position in the list; what the LLM answers is any label.  The resume *)
(* is then tailored (ResumeTailoring), one section of it being followed.   *)
(***************************************************************************)
EXTENDS ResumeTailoring

CONSTANTS
  Labels,         \* role labels the LLM may infer, or answer with
  BlockIds,       \* ids blocks may be given, or the LLM may name
  MaxResumes,     \* bound: resumes in the list
  MaxBlocks       \* bound: blocks of a section; the LLM may name one more

ASSUME RoutingBounds == MaxResumes \in Nat /\ MaxBlocks \in Nat

NoRole == "null"          \* RoleMatch.role is None
ASSUME LabelsAreNotNull == NoRole \notin Labels

VARIABLES
  flags,      \* flags[i]: is resume i marked is_primary?
  roles,      \* roles[i]: the label inferred for resume i; grows as resumes are read
  phase,      \* "load", "route", "apply", "tailor", "done", or "error" (ValueError)
  screened,   \* the resume route_and_screen scored, 0 before
  fallback,   \* used_fallback
  passed,     \* passes_screening
  applied,    \* the resume apply_to_posting tailors and uploads, 0 before
  section,    \* the section followed: "experience", or one the LLM may trim
  blocks,     \* the ids of its blocks in that resume
  answer,     \* the ids the LLM chose
  document    \* the blocks printed in that section of the PDF

tailoringVars == <<section, blocks, answer, document>>
routingVars == <<flags, roles, phase, screened, fallback, passed, applied, tailoringVars>>

Resumes == 1 .. MaxResumes
Loaded == DOMAIN roles
Sections == {"experience", "projects"}
UpTo(n) == UNION {[1 .. k -> BlockIds] : k \in 0 .. n}

RoutingTypeOK ==
  /\ flags \in Seq(BOOLEAN) /\ Len(flags) <= MaxResumes
  /\ roles \in Seq(Labels) /\ Len(roles) <= Len(flags)
  /\ phase \in {"load", "route", "apply", "tailor", "done", "error"}
  /\ screened \in 0 .. Len(roles) /\ applied \in 0 .. Len(roles)
  /\ fallback \in BOOLEAN /\ passed \in BOOLEAN
  /\ section \in Sections /\ blocks \in Seq(BlockIds) /\ answer \in Seq(BlockIds)

RoutingInit ==
  /\ \E n \in 0 .. MaxResumes : flags \in [1 .. n -> BOOLEAN]
  /\ roles = << >> /\ phase = "load"
  /\ screened = 0 /\ fallback = FALSE /\ passed = FALSE /\ applied = 0
  /\ section = "experience" /\ blocks = << >> /\ answer = << >> /\ document = << >>

(* primary_count = 1.                                                        *)
ExactlyOne(marks) == \E i \in DOMAIN marks : \A j \in DOMAIN marks : marks[j] <=> i = j
OnePrimary == ExactlyOne(flags)

(* primary_role_profile.                                                     *)
Primary == CHOOSE i \in Loaded : flags[i]

HasRole(label) == \E i \in Loaded : roles[i] = label

(* {rp.role: rp for rp in role_profiles}[label]: of equal labels the last.   *)
ByRole(label) ==
  CHOOSE i \in Loaded : roles[i] = label /\ \A j \in Loaded : roles[j] = label => j <= i

------------------------------------------------------------------------------
(* load_role_profiles raises unless exactly one resume is primary.           *)
RejectList ==
  /\ phase = "load" /\ ~OnePrimary
  /\ phase' = "error"
  /\ UNCHANGED <<flags, roles, screened, fallback, passed, applied, tailoringVars>>

InferRole(label) ==
  /\ phase = "load" /\ OnePrimary
  /\ Len(roles) < Len(flags)
  /\ roles' = Append(roles, label)
  /\ phase' = IF Len(roles) + 1 = Len(flags) THEN "route" ELSE "load"
  /\ UNCHANGED <<flags, screened, fallback, passed, applied, tailoringVars>>

(* route_and_screen with a single resume: nothing to choose.                 *)
RouteOnly(verdict) ==
  /\ phase = "route" /\ Len(roles) = 1
  /\ screened' = 1 /\ fallback' = FALSE /\ passed' = verdict
  /\ phase' = "apply"
  /\ UNCHANGED <<flags, roles, applied, tailoringVars>>

(* route_and_screen after _select_role answered with a label or with null.   *)
Route(match, verdict) ==
  /\ phase = "route" /\ Len(roles) > 1
  /\ fallback' = ~HasRole(match)
  /\ screened' = IF HasRole(match) THEN ByRole(match) ELSE Primary
  /\ passed' = verdict
  /\ phase' = "apply"
  /\ UNCHANGED <<flags, roles, applied, tailoringVars>>

(* Variant: everything is applied to with the primary resume.                *)
ApplyPrimary ==
  /\ phase = "apply"
  /\ applied' = IF passed THEN Primary ELSE 0
  /\ phase' = IF passed THEN "tailor" ELSE "done"
  /\ UNCHANGED <<flags, roles, screened, fallback, passed, tailoringVars>>

(* apply_to_passing_postings: profile_by_role[result.role].                  *)
Apply ==
  /\ phase = "apply"
  /\ applied' = IF passed THEN ByRole(roles[screened]) ELSE 0
  /\ phase' = IF passed THEN "tailor" ELSE "done"
  /\ UNCHANGED <<flags, roles, screened, fallback, passed, tailoringVars>>

(* apply_to_posting: select_blocks and render_resume, for what parse_resume  *)
(* made of that section (which nothing before looks at) and any LLM answer.  *)
Tailor ==
  /\ phase = "tailor" /\ phase' = "done"
  /\ section' \in Sections /\ blocks' \in UpTo(MaxBlocks) /\ answer' \in UpTo(MaxBlocks + 1)
  /\ document' = Render(SelectBlocks(section', answer', blocks'), blocks')
  /\ UNCHANGED <<flags, roles, screened, fallback, passed, applied>>

RoutingNext ==
  \/ RejectList \/ \E label \in Labels : InferRole(label)
  \/ \E verdict \in BOOLEAN :
       RouteOnly(verdict) \/ \E match \in Labels \cup {NoRole} : Route(match, verdict)
  \/ Apply \/ Tailor

RoutingSpec == RoutingInit /\ [][RoutingNext]_routingVars
------------------------------------------------------------------------------
DistinctRoles == \A i, j \in Loaded : roles[i] = roles[j] => i = j

(* pipeline.apply_to_passing_postings: "using whichever resume               *)
(* hr_agent.route_and_screen chose for it".                                  *)
AppliesWithScreened == applied # 0 => applied = screened

(* That holds when the LLM gave the resumes different labels.                *)
AppliesWithScreenedIfDistinct == DistinctRoles => AppliesWithScreened

(* Even when labels collide, the resume sent carries the label the posting   *)
(* was routed to; and a resume that is sent without being the one screened   *)
(* can only be a later one that hides it behind the same label.              *)
SentCarriesRoutedLabel ==
  applied # 0 => roles[applied] = roles[screened] /\ applied >= screened

(* A posting that fits no label is sent with the primary resume.             *)
FallbackSendsPrimary == DistinctRoles /\ fallback /\ applied # 0 => flags[applied]

(* Types, and both facts about the resume that is sent.                      *)
SentAsRouted == RoutingTypeOK /\ SentCarriesRoutedLabel /\ FallbackSendsPrimary

(* Is block j of the section among those the LLM chose?                      *)
Named(j) == blocks[j] \in IdsOf(answer)

(* If the parser gave the blocks different ids: "experience is always        *)
(* included in full (LLM only controls ordering)", and of another section    *)
(* what the LLM named; nothing the resume does not have is printed; and any  *)
(* two printed blocks stand in the order of the answer, the ones it left out *)
(* after all others in the order of the resume (so none of them twice, and   *)
(* a named one twice only if the LLM repeated it).                           *)
TailoredInFull ==
  phase = "done" /\ (\A i, j \in DOMAIN blocks : blocks[i] = blocks[j] => i = j) =>
    /\ \A j \in DOMAIN blocks :
         section = "experience" \/ Named(j) => \E k \in DOMAIN document : document[k] = j
    /\ \A k \in DOMAIN document :
         document[k] \in DOMAIN blocks /\ (section = "experience" \/ Named(document[k]))
    /\ \A k, l \in DOMAIN document : k < l =>
         \/ \E i, j \in DOMAIN answer :
              i < j /\ answer[i] = blocks[document[k]] /\ answer[j] = blocks[document[l]]
         \/ ~Named(document[l]) /\ (Named(document[k]) \/ document[k] < document[l])
==============================================================================
