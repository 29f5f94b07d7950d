--------------------------- MODULE CredentialPool ---------------------------
(* The API keys of one agent (llm/credential_pool.py) and their rotation in   *)
(* BaseAgent.  The pool is a ring read from a moving index; a key put into    *)
(* cooldown is passed over until its time is up.  A rotation runs without     *)
(* interruption and its result is ignored by the calls that ask for it.       *)
EXTENDS Naturals, FiniteSets

CONSTANT PoolSize   \* keys with a value; with one key no pool is built

ASSUME PoolSizeAssumption == PoolSize \in Nat \ {0, 1}

VARIABLES
  index,     \* _current_index
  cooling,   \* keys whose cooldown_until lies ahead
  inUse      \* the key the client was built with or last given

poolVars == <<index, cooling, inUse>>

Key == 0 .. PoolSize - 1
NoKey == PoolSize   \* AllCredentialsCoolingDown is raised

PoolInit == index = 0 /\ cooling = {} /\ inUse = 0

(* get_active looks at PoolSize places of the ring, moving the index past     *)
(* each of them; places are numbered from the first one looked at.            *)
Place(i, n) == (i + n) % PoolSize
LookedAtButFirst(i, cool) == {n \in 1 .. PoolSize - 1 : Place(i, n) \notin cool}
LookedAt(i, cool) == {n \in 0 .. PoolSize - 1 : Place(i, n) \notin cool}

GetActive(i, cool) ==
  IF LookedAt(i, cool) = {}
  THEN [key |-> NoKey, index |-> i]
  ELSE LET n == CHOOSE n \in LookedAt(i, cool) : \A m \in LookedAt(i, cool) : n <= m
       IN [key |-> Place(i, n), index |-> Place(i, n + 1)]

(* The first answer is taken for the key in use and cooled down, the second   *)
(* is handed to the client; when either raises the client keeps its key.      *)
RotateKey ==
  LET current == GetActive(index, cooling)
      cooled == cooling \cup {current.key}
      next == GetActive(current.index, cooled)
  IN IF current.key = NoKey
     THEN UNCHANGED poolVars
     ELSE /\ cooling' = cooled
          /\ index' = next.index
          /\ inUse' = IF next.key = NoKey THEN inUse ELSE next.key

KeyRecovers(k) ==
  /\ k \in cooling
  /\ cooling' = cooling \ {k}
  /\ UNCHANGED <<index, inUse>>

PoolNext == RotateKey \/ \E k \in Key : KeyRecovers(k)
PoolSpec == PoolInit /\ [][PoolNext]_poolVars

-----------------------------------------------------------------------------
(* A rotation never leaves the agent on a key it knows to be cooling while    *)
(* another key is free, wherever in the ring that key lies.                   *)
RotationSound ==
  [][cooling' # cooling /\ cooling \subseteq cooling'
       => inUse' \notin cooling' \/ cooling' = Key]_poolVars
=============================================================================
