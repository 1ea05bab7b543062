-------------------------- MODULE MCSocialApproach --------------------------
(* Two newcomers, about one of whom every read may fail, and memories that *)
(* are as wary as they can be or warm enough to commit: a quarter is above *)
(* the sixth that lifts 0.30 to 0.35.  One event is remembered, or, of the *)
(* newcomer that is always read, an introduction beside a wary event, or a *)
(* wary event beside its reinterpretation: then the two mix, colour each   *)
(* other's reading, and the introduction may be told again.                *)
EXTENDS SocialApproach

CONSTANTS me, s1, s2, nobody
MCSubjects == {s1, s2}
MCScenes == {{s1}, {me}, {me, s2}, {me, s1, s2}}
MCUnreadable == {s1}
MCWarmths == {-Unit, Unit \div 4}
MCResonances == {0, CommitAt}
MCStores ==
  {{}} \union {{m} : m \in {x \in Memory : x.kind = "event"}}
  \union {{m, x} : m \in {y \in Memory : y.about = s2 /\ y.kind \in {"hearsay", "telling"}},
                   x \in {y \in Memory : y.about = nobody /\ y.warmth = -Unit /\ y.kind = "event"}}
  \union {{m, x} : m \in {y \in Memory : y.about = s2 /\ y.warmth = -Unit /\ y.kind = "event"},
                   x \in {y \in Memory : y.about = s2 /\ y.warmth # -Unit /\ y.kind = "recon"}}
=============================================================================
