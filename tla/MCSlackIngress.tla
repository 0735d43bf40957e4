--------------------------- MODULE MCSlackIngress ---------------------------
(* Three posts, the agent's answers among them, in every combination of the  *)
(* wordings below: each reason of the decision table has one.                *)
EXTENDS SlackContext, TLC

W(channel, by, mention, flaw) ==
  [channel |-> channel, by |-> by, mention |-> mention, flaw |-> flaw]

MCWordings ==
  {W("listed", "person", TRUE, "none"), W("listed", "person", FALSE, "none"),
   W("im", "person", FALSE, "none"), W("im", "person", TRUE, "none"),
   W("unlisted", "person", TRUE, "none"), W("listed", "app", TRUE, "none"),
   W("im", "app", FALSE, "none"), W("listed", "person", TRUE, "shared"),
   W("im", "person", FALSE, "subtype"), W("im", "person", FALSE, "noText"),
   W("listed", "person", TRUE, "mentionOnly")}

\* Otherwise right, but for one thing.
MCUnsigned ==
  {[body |-> "bytes", stamp |-> "recent", sig |-> "other"]}

\* Texts with a mention are short, others too long for one message; two of these are
\* too long together.
MCChars(c) == IF c.mention THEN 2 ELSE 5

PostSymmetry == Permutations(Post)
=============================================================================
