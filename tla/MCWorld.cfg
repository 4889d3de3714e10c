\* Two NPCs, two players, two shots; as many respawns as the run gets to.
\* A null pointer that is followed ends the process.
CONSTANTS
  Npcs = {n1, n2}
  Users = {u1, u2}
  Shots = {s1, s2}
  Me = me
  Null = Null
  Addresses = {a1, a2, a3}
  Answers = {0, 1}
  HitCount = 3
SPECIFICATION Spec
SYMMETRY Alike
CHECK_DEADLOCK FALSE
INVARIANTS
  WorldMirrors
  OwnHitsOnly
  MeUsedAlive
  LivingAreHit
