--------------------------- MODULE ResumeTailoring ---------------------------
(* How a resume is tailored to a posting: select_blocks (resume/selector.py)  *)
(* filters and completes what the LLM chose, render_resume (resume/render.py) *)
(* prints it.  A section of a resume is the sequence of the ids its blocks    *)
(* were given when it was parsed; a printed one is a sequence of blocks, each *)
(* its position in the resume.                                                *)
EXTENDS Integers, Sequences

IdsOf(section) == {section[j] : j \in DOMAIN section}

\* [i for i in s if i in K]; SelectSeq of module Sequences has no definition for proofs
Keep(s, K) ==
  LET kept[n \in 0 .. Len(s)] ==
        IF n = 0 THEN << >>
        ELSE IF s[n] \in K THEN Append(kept[n - 1], s[n]) ELSE kept[n - 1]
  IN  kept[Len(s)]

Known(answer, blocks) == Keep(answer, IdsOf(blocks))

\* Variant: what the LLM leaves out is left out.
SelectNamed(section, answer, blocks) == Known(answer, blocks)

\* an id the resume does not have is dropped; experience the LLM left out is appended
SelectBlocks(section, answer, blocks) ==
  IF section = "experience"
  THEN Known(answer, blocks) \o Keep(blocks, IdsOf(blocks) \ IdsOf(Known(answer, blocks)))
  ELSE Known(answer, blocks)

\* {e.id: e for e in profile.experience}[id]: of equal ids the last block
BlockOf(id, blocks) ==
  CHOOSE j \in DOMAIN blocks : blocks[j] = id /\ \A k \in DOMAIN blocks : blocks[k] = id => k <= j

Render(selection, blocks) == [k \in DOMAIN selection |-> BlockOf(selection[k], blocks)]
==============================================================================
