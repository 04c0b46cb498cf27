--------------------------- MODULE MCGuardArrest ----------------------------
(* An offender, another player that commits a crime at most, two guards and *)
(* two cells.                                                               *)
EXTENDS GuardArrest, TLC

CONSTANTS Offender, Rival

Symmetry == Permutations(Guards) \cup Permutations(Cells)

\* The rival's crime matters to the offender when it takes guards over.
RivalStep ==
  \E W \in SUBSET {g \in Guards : guard[g].suspect = Offender} :
    crime[Rival].revision = 0 /\ W # {} /\ Crime(Rival, 1, W)

\* A dialogue that cannot lead to an answer only blocks prompts, as any other
\* does.
OffenderTalk(g) ==
  /\ known[Offender].bounty > 0
  /\ told[Offender] \o prompted[Offender] \o answers[Offender] = <<>>
  /\ Talk(Offender, g)

\* Guards start anywhere, so only those after somebody need to move.
OffenderNext ==
  \/ PlayerStep(Offender) \/ RivalStep
  \/ \E g \in Guards : Reach(Offender, g) \/ OffenderTalk(g)
  \/ \E c \in Stale : Reissue({c}, Players) \/ Reissue({c}, {Offender})
  \/ \E g \in Guards, c \in Cells : guard[g].suspect # Nobody /\ Migrate(g, c)
  \/ \E c \in Cells : (\E g \in In(c) : guard[g].suspect # Nobody) /\ Reset(c)

\* Where the rival is makes no difference to guards of the offender.
OffenderInit == Init /\ body[Rival].cell = body[Offender].cell
OffenderSpec == OffenderInit /\ [][OffenderNext]_vars
=============================================================================
