----------------------------- MODULE MCMigration -----------------------------
(* Instances of Migration for TLC.                                         *)
EXTENDS Migration

CONSTANTS index, concept, hidden

IndexAndConcept == {index, concept}

OneIndex == {index}

OneHidden == {hidden}

IndexLast == <<concept, index>>

To(form, to, at) == [form |-> form, to |-> to, at |-> at]

Draft(front, eol, meta, links) ==
    [front |-> front, eol |-> eol, meta |-> meta, links |-> links]

Complete == [f \in Fields |-> "ok"]

Old(tier) == [NoMetadata EXCEPT !["timestamp"] = "ok", !["trust_tier"] = tier]

\* links of every form, target and place, no metadata / legacy comments with a
\* trust tier of every kind / frontmatter / pages that do not parse
SomeDrafts ==
    {Draft("plain", "crlf", NoMetadata, {To("md", Missing, "text"), To("md", index, "text")}),
     Draft("plain", "lf", NoMetadata, {To("wiki", Missing, "text"), To("md", Missing, "stray")}),
     Draft("legacy", "lf", Old("bare"), {To("wiki", concept, "text"), To("wiki", concept, "code")}),
     Draft("legacy", "crlf", Old("bad"), {To("md", Missing, "unlabelled")}),
     Draft("legacy", "lf", NoMetadata, {}),
     Draft("yaml", "lf", Complete, {To("wiki", Elsewhere, "text"), To("md", hidden, "text"), To("md", Missing, "code")}),
     Draft("yaml", "crlf", Complete, {To("wiki", concept, "stray")}),
     Draft("yaml", "lf", [Complete EXCEPT !["confidence"] = "bad"], {To("md", Elsewhere, "text")}),
     Draft("yaml", "lf", [Complete EXCEPT !["type"] = "none"], {To("wiki", Missing, "text")}),
     Draft("broken", "lf", NoMetadata, {})}

AllModes == {"dry", "check", "write", "bare"}
=============================================================================
