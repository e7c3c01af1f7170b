---------------------------- MODULE CombatProofs ----------------------------
(***************************************************************************)
(* Proofs about Combat, for any sessions, slots, monsters, and numbers of  *)
(* the skills.                                                             *)
(*                                                                         *)
(* The invariant has one part for each group of variables: what a handler  *)
(* has booked and paid, where the hits wait, when they are due, how far    *)
(* the projectiles have flown, and the lives of the monsters.              *)
(***************************************************************************)
EXTENDS Combat, FiniteSetTheorems, TLAPS

(* What a session has cast, and what its handler has booked: casts are a   *)
(* cooldown apart, so there are not more of them than ticks.               *)
Booked(c) ==
  /\ last[c] = None => casts[c] = 0
  /\ last[c] # None => /\ casts[c] <= last[c] + 1
                       /\ ready[c] >= last[c] + Cooldown
  /\ pc[c] \in {"cooled", "paid"} =>
       /\ ready[c] = now[c] + Cooldown
       /\ last[c] # None => now[c] >= last[c] + Cooldown

CasterInv ==
  /\ tick \in 0 .. MaxTick
  /\ pc \in [Conn -> {"ready", "checked", "stamped", "cooled", "paid"}]
  /\ mp \in [Conn -> Nat] /\ ready \in [Conn -> Nat]
  /\ now \in [Conn -> 0 .. MaxTick]
  /\ casts \in [Conn -> Nat] /\ last \in [Conn -> (0 .. MaxTick) \cup {None}]
  /\ \A c \in Conn : Booked(c)

(* Who is where, and the phases.                                           *)
WorldInv ==
  /\ phase \in {"idle", "collect", "take", "execute", "advance", "flush"}
  /\ who \in [Slot -> Conn \cup {None}] /\ fresh \subseteq Conn
  /\ alive \in [Conn -> BOOLEAN]

(* The hits and the casts that were executed.                              *)
TypeHits ==
  /\ incoming \in Seq(Hit) /\ pending \in Seq(Hit) /\ scan \in Seq(Hit) /\ due \in Seq(Hit)
  /\ done \subseteq Cast

(* Each cast waits in one place of one queue, or was executed.             *)
Casts(q) == {q[k].cast : k \in DOMAIN q}
Once(q)  == \A j, k \in DOMAIN q : q[j].cast = q[k].cast => j = k

QueueInv ==
  /\ Once(incoming) /\ Once(pending) /\ Once(scan) /\ Once(due)
  /\ Casts(incoming) \cap (Casts(pending) \cup Casts(scan) \cup Casts(due) \cup done) = {}
  /\ Casts(pending) \cap (Casts(scan) \cup Casts(due) \cup done) = {}
  /\ Casts(scan) \cap (Casts(due) \cup done) = {}
  /\ Casts(due) \cap done = {}
  /\ Casts(incoming) \cup Casts(pending) \cup Casts(scan) \cup Casts(due) \cup done = Accepted

(* What is due when: a hit that TakeDueHits has to look at has not been    *)
(* due before this tick, or was not known before.                          *)
DueNow(h) == h.at = tick \/ (h.at < tick /\ h.heard = tick)

TimeInv ==
  /\ phase # "take" => scan = <<>>
  /\ phase \notin {"take", "execute"} => due = <<>>
  /\ \A k \in DOMAIN due : DueNow(due[k])
  /\ \A k \in DOMAIN scan : scan[k].at >= tick \/ scan[k].heard = tick
  /\ \A k \in DOMAIN pending : pending[k].at >= tick
  /\ phase # "collect" => \A k \in DOMAIN pending : pending[k].at > tick

(* A life of a monster ends once.                                          *)
LifeInv ==
  /\ back \in [Conn \cup Monster -> Nat]
  /\ hp \in [Monster -> 0 .. MaxHp] /\ damage \in Seq(Monster)
  /\ deaths \in [Monster -> Nat] /\ births \in [Monster -> Nat]
  /\ OneDeathPerLife

(* A projectile that has not been moved in this tick, and one that has.    *)
Age(b)    == tick + Life - b.expire
Due(b)    == tick <= b.expire /\ b.flown = Age(b)
Flown(b)  == tick < b.expire /\ b.flown = Age(b) + 1

BoltInv ==
  /\ bolts \subseteq Bolt /\ left \subseteq bolts
  /\ phase # "advance" => left = {}
  /\ phase \in {"collect", "take", "execute"} => \A b \in bolts : Due(b)
  /\ phase = "advance" => /\ \A b \in left : Due(b)
                          /\ \A b \in bolts \ left : Flown(b)
  /\ phase \in {"flush", "idle"} => \A b \in bolts : Flown(b)

-----------------------------------------------------------------------------
(* The sequence of a finite set is one of its elements.                    *)
LEMMA SetToSeqType ==
  ASSUME NEW S, IsFiniteSet(S)
  PROVE  SetToSeq(S) \in Seq(S)
<1> DEFINE n == Cardinality(S)
<1>1. n \in Nat /\ ExistsBijection(1 .. n, S)
  BY FS_CardinalityType
<1>2. \E f \in [1 .. n -> S] : IsInjective(f)
  BY <1>1 DEF ExistsBijection, Bijection, Injection
<1>3. SetToSeq(S) \in [1 .. n -> S]
  BY <1>2 DEF SetToSeq
<1>4. QED
  BY <1>1, <1>3

(* Every step is one of these.                                             *)
LEMMA Steps ==
  ASSUME [Next]_vars
  PROVE  \/ \E c \in Conn : Join(c) \/ Leave(c) \/ CheckAlive(c) \/ ReadTick(c)
                            \/ TryConsumeCooldown(c) \/ ConsumeMp(c) \/ EnqueueHit(c)
         \/ StartTick \/ CollectIncoming \/ TakeHit \/ Taken \/ Execute \/ Executed
         \/ Advance \/ ProcessRespawns \/ ResolveDamage \/ EndTick
         \/ \E c \in Conn : KillPlayer(c)
         \/ UNCHANGED vars
BY DEF Next, Io, Tick, HandleUseSkill

-----------------------------------------------------------------------------
LEMMA InitCaster == Init => CasterInv
BY CombatAssumption DEF CombatAssumption, Init, CasterInv, Booked

LEMMA CasterStep ==
  ASSUME CasterInv, [Next]_vars
  PROVE  CasterInv'
<1> USE CombatAssumption DEF CombatAssumption
<1>1. CASE UNCHANGED <<tick, caster>>
  BY <1>1 DEF caster, CasterInv, Booked
<1>2. ASSUME NEW c \in Conn, CheckAlive(c) PROVE CasterInv'
  BY <1>2 DEF CheckAlive, CasterInv, Booked
<1>3. ASSUME NEW c \in Conn, ReadTick(c) PROVE CasterInv'
  BY <1>3 DEF ReadTick, CasterInv, Booked
<1>4. ASSUME NEW c \in Conn, TryConsumeCooldown(c) PROVE CasterInv'
  BY <1>4 DEF TryConsumeCooldown, Cooling, CasterInv, Booked
<1>5. ASSUME NEW c \in Conn, ConsumeMp(c) PROVE CasterInv'
  BY <1>5 DEF ConsumeMp, Price, CasterInv, Booked
<1>6. ASSUME NEW c \in Conn, EnqueueHit(c) PROVE CasterInv'
  <2>1. /\ pc[c] = "paid" /\ pc' = [pc EXCEPT ![c] = "ready"]
        /\ casts' = [casts EXCEPT ![c] = @ + 1] /\ last' = [last EXCEPT ![c] = now[c]]
        /\ UNCHANGED <<tick, mp, ready, now>>
    BY <1>6 DEF EnqueueHit
  <2>2. Booked(c)'
    BY <2>1 DEF CasterInv, Booked
  <2>3. \A d \in Conn \ {c} : Booked(d)'
    BY <2>1 DEF CasterInv, Booked
  <2>4. QED
    BY <2>1, <2>2, <2>3 DEF CasterInv
<1>7. CASE StartTick
  BY <1>7 DEF StartTick, caster, CasterInv, Booked
<1>8. CASE ProcessRespawns
  BY <1>8 DEF ProcessRespawns, CasterInv, Booked
<1>9. QED
  BY <1>1, <1>2, <1>3, <1>4, <1>5, <1>6, <1>7, <1>8, Steps
  DEF Join, Leave, CollectIncoming, TakeHit, Taken, Execute, Executed, Advance,
      ResolveDamage, EndTick, KillPlayer, vars, caster

-----------------------------------------------------------------------------
LEMMA InitWorld == Init => WorldInv
BY DEF Init, WorldInv

LEMMA WorldStep ==
  ASSUME WorldInv, [Next]_vars
  PROVE  WorldInv'
<1>1. CASE UNCHANGED <<phase, world>>
  BY <1>1 DEF world, WorldInv
<1>2. ASSUME NEW c \in Conn, Join(c) \/ Leave(c) \/ KillPlayer(c) PROVE WorldInv'
  BY <1>2, CombatAssumption DEF CombatAssumption, Join, Leave, KillPlayer, WorldInv
<1>3. CASE ProcessRespawns
  BY <1>3 DEF ProcessRespawns, WorldInv
<1>4. CASE phase' # phase /\ UNCHANGED world
  BY <1>4, Steps
  DEF Join, Leave, KillPlayer, ProcessRespawns, CheckAlive, ReadTick, TryConsumeCooldown,
      ConsumeMp, EnqueueHit, StartTick, CollectIncoming, TakeHit, Taken, Execute,
      Executed, Advance, ResolveDamage, EndTick, vars, world, WorldInv
<1>5. QED
  BY <1>1, <1>2, <1>3, <1>4, Steps
  DEF CheckAlive, ReadTick, TryConsumeCooldown, ConsumeMp, EnqueueHit, StartTick,
      CollectIncoming, TakeHit, Taken, Execute, Executed, Advance, ResolveDamage,
      EndTick, vars, world
-----------------------------------------------------------------------------
LEMMA InitLife == Init => LifeInv
BY CombatAssumption DEF CombatAssumption, Init, LifeInv, OneDeathPerLife

(* Monsters in any order are recorded as targets.                          *)
LEMMA Recorded ==
  ASSUME LifeInv, NEW S \in SUBSET Living, damage' = damage \o SetToSeq(S),
         UNCHANGED <<back, hp, deaths, births>>
  PROVE  LifeInv'
<1>1. S \subseteq Monster /\ IsFiniteSet(S)
  BY CombatAssumption, FS_Subset DEF CombatAssumption, Living
<1>2. SetToSeq(S) \in Seq(Monster)
  BY <1>1, SetToSeqType
<1>3. damage' \in Seq(Monster)
  BY <1>2 DEF LifeInv
<1>4. QED
  BY <1>3 DEF LifeInv, OneDeathPerLife

LEMMA LifeStep ==
  ASSUME LifeInv, CasterInv, [Next]_vars
  PROVE  LifeInv'
<1> USE CombatAssumption DEF CombatAssumption
<1>1. CASE UNCHANGED <<back, targets, damage>>
  BY <1>1 DEF targets, LifeInv, OneDeathPerLife
<1>2. CASE Execute
  <2>1. UNCHANGED <<back, targets>>
    BY <1>2 DEF Execute
  <2>2. CASE \E S \in SUBSET Living : damage' = damage \o SetToSeq(S)
    BY <2>1, <2>2, Recorded DEF targets
  <2>3. CASE UNCHANGED damage
    BY <1>1, <2>1, <2>3
  <2>4. QED
    BY <1>2, <2>2, <2>3 DEF Execute, Slash, Launch, Fizzle
<1>3. CASE Advance
  <2>1. UNCHANGED <<back, targets>>
    BY <1>3 DEF Advance
  <2>2. CASE \E S \in SUBSET Living : damage' = damage \o SetToSeq(S)
    BY <2>1, <2>2, Recorded DEF targets
  <2>3. CASE UNCHANGED damage
    BY <1>1, <2>1, <2>3
  <2>4. QED
    BY <1>3, <2>2, <2>3 DEF Advance, Expire, Fly, HitWall, HitTarget
<1>4. CASE ProcessRespawns
  <2>1. /\ back' = [o \in Conn \cup Monster |-> IF o \in Revived THEN 0 ELSE back[o]]
        /\ hp' = [m \in Monster |-> IF m \in Revived THEN MaxHp ELSE hp[m]]
        /\ births' = [m \in Monster |-> IF m \in Revived THEN births[m] + 1 ELSE births[m]]
        /\ UNCHANGED <<deaths, damage>>
    BY <1>4 DEF ProcessRespawns, LifeInv
  <2>2. \A m \in Monster : m \in Revived => back[m] # 0
    BY DEF Revived, Rises
  <2>3. QED
    BY <2>1, <2>2 DEF LifeInv, OneDeathPerLife
<1>5. CASE ResolveDamage
  <2> DEFINE m == Head(damage)
  <2>1. /\ m \in Monster /\ damage' \in Seq(Monster) /\ UNCHANGED <<tick, births>>
        /\ Wound(m) \/ Kill(m) \/ Spare(m)
    BY <1>5 DEF ResolveDamage, LifeInv
  <2> HIDE DEF m
  <2>2. CASE Wound(m)
    <3>1. /\ hp' = [hp EXCEPT ![m] = @ - 1] /\ hp[m] > 1 /\ UNCHANGED <<deaths, back>>
      BY <2>2 DEF Wound
    <3>2. hp' \in [Monster -> 0 .. MaxHp]
      BY <2>1, <3>1 DEF LifeInv
    <3>3. ASSUME NEW k \in Monster
          PROVE  /\ deaths'[k] - births'[k] = IF hp'[k] = 0 THEN 1 ELSE 0
                 /\ hp'[k] = 0 <=> back'[k] # 0
      <4>1. /\ deaths[k] - births[k] = IF hp[k] = 0 THEN 1 ELSE 0
            /\ hp[k] = 0 <=> back[k] # 0
        BY DEF LifeInv, OneDeathPerLife
      <4>2. hp[k] \in Nat /\ hp'[k] = IF k = m THEN hp[m] - 1 ELSE hp[k]
        BY <2>1, <3>1 DEF LifeInv
      <4>3. QED
        BY <2>1, <3>1, <4>1, <4>2
    <3>4. QED
      BY <2>1, <3>1, <3>2, <3>3 DEF LifeInv, OneDeathPerLife
  <2>3. CASE Kill(m)
    <3>1. /\ hp[m] = 1 /\ hp' = [hp EXCEPT ![m] = 0]
          /\ deaths' = [deaths EXCEPT ![m] = @ + 1] /\ back' = [back EXCEPT ![m] = tick + Rest]
          /\ tick + Rest \in Nat \ {0}
      BY <2>3 DEF Kill, CasterInv
    <3>2. /\ hp' \in [Monster -> 0 .. MaxHp] /\ deaths' \in [Monster -> Nat]
          /\ back' \in [Conn \cup Monster -> Nat]
      BY <2>1, <3>1 DEF LifeInv
    <3>3. ASSUME NEW k \in Monster
          PROVE  /\ deaths'[k] - births'[k] = IF hp'[k] = 0 THEN 1 ELSE 0
                 /\ hp'[k] = 0 <=> back'[k] # 0
      <4>1. /\ deaths[k] - births[k] = IF hp[k] = 0 THEN 1 ELSE 0
            /\ hp[k] = 0 <=> back[k] # 0
            /\ deaths[k] \in Nat /\ births[k] \in Nat
        BY DEF LifeInv, OneDeathPerLife
      <4>2. CASE k = m
        <5>1. hp'[k] = 0 /\ deaths'[k] = deaths[k] + 1 /\ back'[k] = tick + Rest
          BY <2>1, <3>1, <4>2 DEF LifeInv
        <5>2. QED
          BY <2>1, <3>1, <4>1, <4>2, <5>1
      <4>3. CASE k # m
        <5>1. hp'[k] = hp[k] /\ deaths'[k] = deaths[k] /\ back'[k] = back[k]
          BY <2>1, <3>1, <4>3 DEF LifeInv
        <5>2. QED
          BY <2>1, <4>1, <5>1
      <4>4. QED
        BY <4>2, <4>3
    <3>4. QED
      BY <2>1, <3>2, <3>3 DEF LifeInv, OneDeathPerLife
  <2>4. CASE Spare(m)
    BY <2>1, <2>4 DEF Spare, LifeInv, OneDeathPerLife
  <2>5. QED
    BY <2>1, <2>2, <2>3, <2>4
<1>6. ASSUME NEW c \in Conn, KillPlayer(c) PROVE LifeInv'
  <2>1. /\ back' = [back EXCEPT ![c] = tick + Rest] /\ UNCHANGED <<targets, damage>>
        /\ tick + Rest \in Nat /\ c \notin Monster
    BY <1>6 DEF KillPlayer, CasterInv
  <2>2. /\ back' \in [Conn \cup Monster -> Nat]
        /\ \A m \in Monster : back'[m] = back[m]
    BY <2>1 DEF LifeInv
  <2>3. QED
    BY <2>1, <2>2 DEF targets, LifeInv, OneDeathPerLife
<1>7. QED
  BY <1>1, <1>2, <1>3, <1>4, <1>5, <1>6, Steps
  DEF Join, Leave, CheckAlive, ReadTick, TryConsumeCooldown, ConsumeMp, EnqueueHit,
      StartTick, CollectIncoming, TakeHit, Taken, Executed, EndTick, vars, targets

-----------------------------------------------------------------------------
(* What Append, Head, Tail and \o do to a queue of hits.                   *)
LEMMA Queued ==
  ASSUME NEW q \in Seq(Hit), NEW h \in Hit
  PROVE  /\ Append(q, h) \in Seq(Hit)
         /\ Casts(Append(q, h)) = Casts(q) \cup {h.cast}
         /\ Once(q) /\ h.cast \notin Casts(q) => Once(Append(q, h))
         /\ \A k \in DOMAIN Append(q, h) : \/ Append(q, h)[k] = h
                                           \/ k \in DOMAIN q /\ Append(q, h)[k] = q[k]
<1>0. PICK a : a = Append(q, h)
  OBVIOUS
<1>1. /\ a \in Seq(Hit) /\ Len(q) \in Nat /\ DOMAIN q = 1 .. Len(q)
      /\ DOMAIN a = 1 .. Len(q) + 1 /\ a[Len(q) + 1] = h
      /\ \A k \in 1 .. Len(q) : a[k] = q[k]
  BY <1>0
<1>2. DOMAIN a = DOMAIN q \cup {Len(q) + 1} /\ Len(q) + 1 \notin DOMAIN q
  BY <1>1
<1>3. \A k \in DOMAIN a : a[k] = h \/ (k \in DOMAIN q /\ a[k] = q[k])
  BY <1>1, <1>2
<1>4. Casts(a) = Casts(q) \cup {h.cast}
  <2>1. \A k \in DOMAIN q : k \in DOMAIN a /\ a[k] = q[k]
    BY <1>1, <1>2
  <2>2. Casts(q) \subseteq Casts(a) /\ h.cast \in Casts(a)
    BY <1>1, <1>2, <2>1 DEF Casts
  <2>3. Casts(a) \subseteq Casts(q) \cup {h.cast}
    BY <1>3 DEF Casts
  <2>4. QED
    BY <2>2, <2>3
<1>5. Once(q) /\ h.cast \notin Casts(q) => Once(a)
  BY <1>1, <1>2 DEF Casts, Once
<1>6. QED
  BY <1>0, <1>1, <1>3, <1>4, <1>5

LEMMA Dequeued ==
  ASSUME NEW q \in Seq(Hit), q # <<>>
  PROVE  /\ Head(q) \in Hit /\ Tail(q) \in Seq(Hit)
         /\ Casts(q) = Casts(Tail(q)) \cup {Head(q).cast}
         /\ Once(q) => Once(Tail(q)) /\ Head(q).cast \notin Casts(Tail(q))
         /\ \A k \in DOMAIN Tail(q) : k + 1 \in DOMAIN q /\ Tail(q)[k] = q[k + 1]
         /\ 1 \in DOMAIN q /\ Head(q) = q[1]
<1>0. PICK t : t = Tail(q)
  OBVIOUS
<1>1. /\ t \in Seq(Hit) /\ Len(q) \in Nat \ {0} /\ DOMAIN q = 1 .. Len(q)
      /\ DOMAIN t = 1 .. Len(q) - 1 /\ Head(q) = q[1] /\ Head(q) \in Hit
      /\ \A k \in 1 .. Len(q) - 1 : t[k] = q[k + 1]
  BY <1>0
<1>2. \A k \in DOMAIN q : k = 1 \/ (k - 1 \in DOMAIN t /\ t[k - 1] = q[k])
  BY <1>1
<1>3. 1 \in DOMAIN q /\ \A k \in DOMAIN t : k + 1 \in DOMAIN q /\ t[k] = q[k + 1] /\ k + 1 # 1
  BY <1>1
<1>4. Casts(q) = Casts(t) \cup {Head(q).cast}
  <2>1. Casts(t) \subseteq Casts(q) /\ Head(q).cast \in Casts(q)
    BY <1>1, <1>3 DEF Casts
  <2>2. Casts(q) \subseteq Casts(t) \cup {Head(q).cast}
    BY <1>1, <1>2 DEF Casts
  <2>3. QED
    BY <2>1, <2>2
<1>5. Once(q) => Once(t) /\ Head(q).cast \notin Casts(t)
  BY <1>1, <1>3 DEF Casts, Once
<1>6. QED
  BY <1>0, <1>1, <1>3, <1>4, <1>5

LEMMA Joined ==
  ASSUME NEW p \in Seq(Hit), NEW q \in Seq(Hit)
  PROVE  /\ p \o q \in Seq(Hit)
         /\ Casts(p \o q) = Casts(p) \cup Casts(q)
         /\ Once(p) /\ Once(q) /\ Casts(p) \cap Casts(q) = {} => Once(p \o q)
         /\ \A k \in DOMAIN (p \o q) : \/ k \in DOMAIN p /\ (p \o q)[k] = p[k]
                                       \/ k - Len(p) \in DOMAIN q /\ (p \o q)[k] = q[k - Len(p)]
<1>0. PICK c : c = p \o q
  OBVIOUS
<1>1. /\ c \in Seq(Hit) /\ Len(p) \in Nat /\ Len(q) \in Nat
      /\ DOMAIN p = 1 .. Len(p) /\ DOMAIN q = 1 .. Len(q)
      /\ DOMAIN c = 1 .. Len(p) + Len(q)
      /\ \A k \in 1 .. Len(p) + Len(q) : c[k] = IF k <= Len(p) THEN p[k] ELSE q[k - Len(p)]
  BY <1>0
<1>2. \A k \in DOMAIN c : \/ k \in DOMAIN p /\ c[k] = p[k]
                          \/ k - Len(p) \in DOMAIN q /\ c[k] = q[k - Len(p)]
  BY <1>1
<1>3. /\ \A k \in DOMAIN p : k \in DOMAIN c /\ c[k] = p[k]
      /\ \A k \in DOMAIN q : k + Len(p) \in DOMAIN c /\ c[k + Len(p)] = q[k]
  BY <1>1
<1>4. Casts(c) = Casts(p) \cup Casts(q)
  BY <1>2, <1>3 DEF Casts
<1>5. Once(p) /\ Once(q) /\ Casts(p) \cap Casts(q) = {} => Once(c)
  <2> SUFFICES ASSUME Once(p), Once(q), Casts(p) \cap Casts(q) = {},
                      NEW j \in DOMAIN c, NEW k \in DOMAIN c, c[j].cast = c[k].cast
               PROVE  j = k
    BY DEF Once
  <2>1. \A i \in DOMAIN p, l \in DOMAIN q : p[i].cast # q[l].cast
    BY DEF Casts
  <2>2. j \in Int /\ k \in Int
    BY <1>1
  <2>3. CASE j \in DOMAIN p /\ c[j] = p[j]
    BY <1>2, <2>1, <2>3 DEF Once
  <2>4. CASE j - Len(p) \in DOMAIN q /\ c[j] = q[j - Len(p)]
    <3>1. k - Len(p) \in DOMAIN q /\ c[k] = q[k - Len(p)]
      BY <1>2, <2>1, <2>4
    <3>2. j - Len(p) = k - Len(p)
      BY <2>4, <3>1 DEF Once
    <3>3. QED
      BY <1>1, <2>2, <3>2
  <2>5. QED
    BY <1>2, <2>3, <2>4
<1>6. QED
  BY <1>0, <1>1, <1>2, <1>4, <1>5

(* What is collected are the same casts, heard in this tick.               *)
LEMMA Heralded ==
  ASSUME TypeHits, tick \in Nat
  PROVE  /\ Heard \in Seq(Hit)
         /\ Casts(Heard) = Casts(incoming) /\ (Once(incoming) => Once(Heard))
         /\ \A k \in DOMAIN Heard : Heard[k].heard = tick
<1>1. incoming \in Seq(Hit)
  BY DEF TypeHits
<1>2. /\ DOMAIN incoming = 1 .. Len(incoming) /\ Len(incoming) \in Nat
      /\ \A k \in DOMAIN incoming : incoming[k] \in Hit
  BY <1>1
<1>3. \A k \in DOMAIN incoming : /\ [incoming[k] EXCEPT !.heard = tick] \in Hit
                                 /\ [incoming[k] EXCEPT !.heard = tick].cast = incoming[k].cast
                                 /\ [incoming[k] EXCEPT !.heard = tick].heard = tick
  BY <1>2 DEF Hit
<1>4. /\ DOMAIN Heard = DOMAIN incoming
      /\ \A k \in DOMAIN Heard : Heard[k] = [incoming[k] EXCEPT !.heard = tick]
  BY DEF Heard
<1>5. Heard \in Seq(Hit)
  <2>1. Heard \in [1 .. Len(incoming) -> Hit]
    BY <1>2, <1>3 DEF Heard
  <2>2. QED
    BY <1>2, <2>1
<1>6. \A k \in DOMAIN Heard : Heard[k].heard = tick /\ Heard[k].cast = incoming[k].cast
  BY <1>3, <1>4
<1>7. Casts(Heard) = Casts(incoming)
  BY <1>4, <1>6 DEF Casts
<1>8. Once(incoming) => Once(Heard)
  BY <1>4, <1>6 DEF Once
<1>9. QED
  BY <1>5, <1>6, <1>7, <1>8

LEMMA EmptyQueue == Casts(<<>>) = {} /\ Once(<<>>)
BY DEF Casts, Once

-----------------------------------------------------------------------------
LEMMA InitHits == Init => TypeHits /\ QueueInv /\ TimeInv
<1> SUFFICES ASSUME Init PROVE TypeHits /\ QueueInv /\ TimeInv
  OBVIOUS
<1>1. /\ incoming = <<>> /\ pending = <<>> /\ scan = <<>> /\ due = <<>> /\ done = {}
      /\ phase = "idle"
  BY DEF Init
<1>2. Accepted = {}
  BY DEF Init, Accepted, Cast
<1>3. TypeHits /\ TimeInv
  BY <1>1 DEF TypeHits, TimeInv
<1>4. QueueInv
  BY <1>1, <1>2, EmptyQueue DEF QueueInv
<1>5. QED
  BY <1>3, <1>4

(* EnqueueHit: a new cast, of a number that is within the bound because    *)
(* the casts are a cooldown apart.                                         *)
LEMMA EnqueueStep ==
  ASSUME TypeHits, QueueInv, TimeInv, CasterInv, NEW c \in Conn, EnqueueHit(c)
  PROVE  TypeHits' /\ QueueInv' /\ TimeInv'
<1> DEFINE id == <<c, casts[c] + 1>>
           h  == [cast |-> id, slot |-> SlotOf[c], bolt |-> c \in Mage,
                  at |-> now[c] + Windup, heard |-> None]
<1>1. /\ incoming' = Append(incoming, h) /\ casts' = [casts EXCEPT ![c] = @ + 1]
      /\ pc[c] = "paid" /\ UNCHANGED <<tick, phase, pending, scan, due, done>>
  BY DEF EnqueueHit
<1>2. casts[c] + 1 \in 1 .. MaxTick + 1
  <2>1. /\ now[c] \in Nat /\ now[c] <= MaxTick /\ casts[c] \in Nat
        /\ Cooldown \in Nat /\ Cooldown > 0 /\ MaxTick \in Nat
    BY CombatAssumption DEF CombatAssumption, CasterInv
  <2>2. CASE last[c] = None
    BY <2>1, <2>2 DEF CasterInv, Booked
  <2>3. CASE last[c] # None
    <3>1. last[c] \in Nat /\ casts[c] <= last[c] + 1 /\ now[c] >= last[c] + Cooldown
      BY <1>1, <2>3 DEF CasterInv, Booked
    <3>2. QED
      BY <2>1, <3>1
  <2>4. QED
    BY <2>2, <2>3
<1>3. id \in Cast
  BY <1>2 DEF Cast
<1>4. h \in Hit /\ h.cast = id
  <2>1. now[c] + Windup \in Nat /\ SlotOf[c] \in Slot
    BY CombatAssumption DEF CombatAssumption, CasterInv
  <2> HIDE DEF id
  <2>2. QED
    BY <1>3, <2>1 DEF Hit
<1> HIDE DEF h
<1>5. id \notin Accepted /\ Accepted' = Accepted \cup {id}
  <2>1. casts[c] \in Nat /\ id[1] = c /\ id[2] = casts[c] + 1
    BY DEF CasterInv
  <2>2. \A x \in Cast : x \in Accepted' <=> x \in Accepted \/ x = id
    <3> SUFFICES ASSUME NEW x \in Cast PROVE x \in Accepted' <=> x \in Accepted \/ x = id
      OBVIOUS
    <3>1. x[1] \in Conn /\ x[2] \in Nat /\ x = <<x[1], x[2]>>
      BY CombatAssumption DEF CombatAssumption, Cast
    <3>2. CASE x[1] = c
      BY <1>1, <2>1, <3>1, <3>2 DEF Accepted, CasterInv
    <3>3. CASE x[1] # c
      BY <1>1, <2>1, <3>1, <3>3 DEF Accepted, CasterInv
    <3>4. QED
      BY <3>2, <3>3
  <2>3. Accepted \subseteq Cast /\ Accepted' \subseteq Cast
    BY DEF Accepted
  <2>4. id \notin Accepted
    BY <2>1 DEF Accepted
  <2>5. QED
    BY <1>3, <2>2, <2>3, <2>4
<1> HIDE DEF id
<1>6. /\ incoming' \in Seq(Hit) /\ Casts(incoming') = Casts(incoming) \cup {id}
      /\ (Once(incoming) /\ id \notin Casts(incoming) => Once(incoming'))
  BY <1>1, <1>4, Queued DEF TypeHits
<1>7. TypeHits' /\ TimeInv'
  BY <1>1, <1>6 DEF TypeHits, TimeInv, DueNow
<1>8. QueueInv'
  <2>1. /\ Casts(pending') = Casts(pending) /\ Once(pending') = Once(pending)
        /\ Casts(scan') = Casts(scan) /\ Once(scan') = Once(scan)
        /\ Casts(due') = Casts(due) /\ Once(due') = Once(due) /\ done' = done
    BY <1>1
  <2>2. QED
    BY <1>5, <1>6, <2>1 DEF QueueInv
<1>9. QED
  BY <1>7, <1>8

(* CollectIncoming: everything is looked at in this tick.                  *)
LEMMA CollectStep ==
  ASSUME TypeHits, QueueInv, TimeInv, CasterInv, CollectIncoming
  PROVE  TypeHits' /\ QueueInv' /\ TimeInv'
<1>1. /\ phase = "collect" /\ phase' = "take" /\ scan' = pending \o Heard
      /\ incoming' = <<>> /\ pending' = <<>> /\ UNCHANGED <<tick, casts, due, done>>
      /\ tick \in Nat
  BY CombatAssumption DEF CombatAssumption, CollectIncoming, caster, CasterInv
<1>2. /\ Heard \in Seq(Hit) /\ Casts(Heard) = Casts(incoming)
      /\ (Once(incoming) => Once(Heard))
      /\ \A k \in DOMAIN Heard : Heard[k].heard = tick
  BY <1>1, Heralded
<1>3. /\ scan' \in Seq(Hit) /\ Casts(scan') = Casts(pending) \cup Casts(incoming)
      /\ Once(scan')
      /\ \A k \in DOMAIN scan' : \/ k \in DOMAIN pending /\ scan'[k] = pending[k]
                                 \/ scan'[k].heard = tick
  <2>1. pending \in Seq(Hit)
    BY DEF TypeHits
  <2>2. QED
    BY <1>1, <1>2, <2>1, Joined DEF QueueInv
<1>4. TypeHits'
  BY <1>1, <1>3 DEF TypeHits
<1>5. scan = <<>> /\ Casts(scan) = {}
  BY <1>1, EmptyQueue DEF TimeInv
<1>6. QueueInv'
  <2>1. /\ Casts(pending') = {} /\ Once(pending') /\ Casts(incoming') = {} /\ Once(incoming')
        /\ Casts(due') = Casts(due) /\ Once(due') = Once(due) /\ done' = done
        /\ Accepted' = Accepted
    BY <1>1, EmptyQueue DEF Accepted
  <2>2. QED
    BY <1>3, <1>5, <2>1 DEF QueueInv
<1>7. TimeInv'
  BY <1>1, <1>3 DEF TimeInv, DueNow
<1>8. QED
  BY <1>4, <1>6, <1>7

(* TakeDueHits, one hit: it is due now, or waits until later.              *)
LEMMA TakeStep ==
  ASSUME TypeHits, QueueInv, TimeInv, CasterInv, TakeHit
  PROVE  TypeHits' /\ QueueInv' /\ TimeInv'
<1> DEFINE h == Head(scan)
<1>1. /\ phase = "take" /\ scan # <<>> /\ scan' = Tail(scan)
      /\ UNCHANGED <<tick, phase, casts, incoming, done>>
      /\ \/ h.at <= tick /\ due' = Append(due, h) /\ pending' = pending
         \/ ~(h.at <= tick) /\ due' = due /\ pending' = Append(pending, h)
  BY DEF TakeHit, IsDue, NotDue, caster
<1>2. /\ scan \in Seq(Hit) /\ due \in Seq(Hit) /\ pending \in Seq(Hit)
      /\ incoming \in Seq(Hit) /\ tick \in Nat
  BY CombatAssumption DEF CombatAssumption, TypeHits, CasterInv
<1>3. /\ h \in Hit /\ scan' \in Seq(Hit) /\ Casts(scan) = Casts(scan') \cup {h.cast}
      /\ Once(scan') /\ h.cast \notin Casts(scan')
      /\ \A k \in DOMAIN scan' : k + 1 \in DOMAIN scan /\ scan'[k] = scan[k + 1]
      /\ 1 \in DOMAIN scan /\ h = scan[1]
  BY <1>1, <1>2, Dequeued DEF QueueInv
<1>4. h.at >= tick \/ h.heard = tick
  BY <1>3 DEF TimeInv
<1>5. h.at \in Nat
  BY <1>3 DEF Hit
<1> HIDE DEF h
<1>6. Accepted' = Accepted /\ Casts(incoming') = Casts(incoming) /\ Once(incoming') = Once(incoming)
  BY <1>1 DEF Accepted
<1>7. CASE h.at <= tick /\ due' = Append(due, h) /\ pending' = pending
  <2>1. /\ due' \in Seq(Hit) /\ Casts(due') = Casts(due) \cup {h.cast}
        /\ (Once(due) /\ h.cast \notin Casts(due) => Once(due'))
        /\ \A k \in DOMAIN due' : \/ due'[k] = h
                                  \/ k \in DOMAIN due /\ due'[k] = due[k]
    BY <1>2, <1>3, <1>7, Queued
  <2>2. TypeHits'
    BY <1>1, <1>3, <1>7, <2>1 DEF TypeHits
  <2>3. Casts(pending') = Casts(pending) /\ Once(pending') = Once(pending)
    BY <1>7
  <2>4. QueueInv'
    BY <1>1, <1>3, <1>6, <2>1, <2>3 DEF QueueInv
  <2>5. DueNow(h)
    BY <1>2, <1>4, <1>5, <1>7 DEF DueNow
  <2>6. TimeInv'
    BY <1>1, <1>3, <1>7, <2>1, <2>5 DEF TimeInv, DueNow
  <2>7. QED
    BY <2>2, <2>4, <2>6
<1>8. CASE ~(h.at <= tick) /\ due' = due /\ pending' = Append(pending, h)
  <2>1. /\ pending' \in Seq(Hit) /\ Casts(pending') = Casts(pending) \cup {h.cast}
        /\ (Once(pending) /\ h.cast \notin Casts(pending) => Once(pending'))
        /\ \A k \in DOMAIN pending' : \/ pending'[k] = h
                                      \/ k \in DOMAIN pending /\ pending'[k] = pending[k]
    BY <1>2, <1>3, <1>8, Queued
  <2>2. TypeHits'
    BY <1>1, <1>3, <1>8, <2>1 DEF TypeHits
  <2>3. Casts(due') = Casts(due) /\ Once(due') = Once(due)
    BY <1>8
  <2>4. QueueInv'
    BY <1>1, <1>3, <1>6, <2>1, <2>3 DEF QueueInv
  <2>5. h.at > tick
    BY <1>2, <1>5, <1>8
  <2>6. TimeInv'
    <3>1. \A k \in DOMAIN pending' : pending'[k].at > tick
      BY <1>1, <2>1, <2>5 DEF TimeInv
    <3>2. h.at >= tick /\ \A k \in DOMAIN pending : pending[k].at >= tick
      BY <1>2, <1>5, <2>5 DEF TimeInv
    <3>3. \A k \in DOMAIN pending' : pending'[k].at >= tick
      BY <2>1, <3>2
    <3>4. \A k \in DOMAIN scan' : scan'[k].at >= tick \/ scan'[k].heard = tick
      BY <1>3 DEF TimeInv
    <3>5. QED
      BY <1>1, <1>8, <3>1, <3>3, <3>4 DEF TimeInv, DueNow
  <2>7. QED
    BY <2>2, <2>4, <2>6
<1>9. QED
  BY <1>1, <1>7, <1>8

(* Execute: the first of the due hits is done.                             *)
LEMMA ExecuteStep ==
  ASSUME TypeHits, QueueInv, TimeInv, Execute
  PROVE  TypeHits' /\ QueueInv' /\ TimeInv'
<1>1. /\ phase = "execute" /\ due # <<>> /\ due' = Tail(due) /\ done' = done \cup {Head(due).cast}
      /\ UNCHANGED <<tick, phase, casts, incoming, pending, scan>>
  BY DEF Execute, caster
<1>2. /\ Head(due) \in Hit /\ due' \in Seq(Hit)
      /\ Casts(due) = Casts(due') \cup {Head(due).cast}
      /\ Once(due') /\ Head(due).cast \notin Casts(due')
      /\ \A k \in DOMAIN due' : k + 1 \in DOMAIN due /\ due'[k] = due[k + 1]
  BY <1>1, Dequeued DEF TypeHits, QueueInv
<1>3. Head(due).cast \in Cast
  BY <1>2 DEF Hit
<1>4. TypeHits' /\ TimeInv'
  BY <1>1, <1>2, <1>3 DEF TypeHits, TimeInv, DueNow
<1>5. /\ Accepted' = Accepted
      /\ Casts(incoming') = Casts(incoming) /\ Once(incoming') = Once(incoming)
      /\ Casts(pending') = Casts(pending) /\ Once(pending') = Once(pending)
      /\ Casts(scan') = Casts(scan) /\ Once(scan') = Once(scan)
  BY <1>1 DEF Accepted
<1>6. QueueInv'
  BY <1>1, <1>2, <1>5 DEF QueueInv
<1>7. QED
  BY <1>4, <1>6

LEMMA HitsStep ==
  ASSUME TypeHits, QueueInv, TimeInv, CasterInv, WorldInv, [Next]_vars
  PROVE  TypeHits' /\ QueueInv' /\ TimeInv'
<1>1. ASSUME UNCHANGED <<hits, casts>> PROVE TypeHits' /\ QueueInv'
  <2>1. TypeHits'
    BY <1>1 DEF hits, TypeHits
  <2>2. /\ Casts(incoming') = Casts(incoming) /\ Once(incoming') = Once(incoming)
        /\ Casts(pending') = Casts(pending) /\ Once(pending') = Once(pending)
        /\ Casts(scan') = Casts(scan) /\ Once(scan') = Once(scan)
        /\ Casts(due') = Casts(due) /\ Once(due') = Once(due)
        /\ done' = done /\ Accepted' = Accepted
    BY <1>1 DEF hits, Accepted
  <2>3. QED
    BY <2>1, <2>2 DEF QueueInv
<1>2. CASE UNCHANGED <<tick, phase, hits, casts>>
  BY <1>1, <1>2 DEF hits, TimeInv, DueNow
<1>3. CASE StartTick
  <2>1. TypeHits' /\ QueueInv'
    BY <1>1, <1>3 DEF StartTick, caster
  <2>2. /\ phase = "idle" /\ phase' = "collect" /\ tick' = tick + 1 /\ UNCHANGED hits
        /\ tick \in Nat
    BY <1>3, CombatAssumption DEF CombatAssumption, StartTick, CasterInv
  <2>3. \A k \in DOMAIN pending : pending[k].at \in Nat
    <3>1. \A k \in DOMAIN pending : pending[k] \in Hit
      BY DEF TypeHits
    <3>2. QED
      BY <3>1 DEF Hit
  <2>4. TimeInv'
    BY <2>2, <2>3 DEF hits, TimeInv, DueNow
  <2>5. QED
    BY <2>1, <2>4
<1>4. CASE Taken \/ Executed \/ ProcessRespawns \/ EndTick
  BY <1>1, <1>4 DEF Taken, Executed, ProcessRespawns, EndTick, caster, hits, TimeInv, DueNow
<1>5. QED
  BY <1>2, <1>3, <1>4, EnqueueStep, CollectStep, TakeStep, ExecuteStep, Steps
  DEF Join, Leave, CheckAlive, ReadTick, TryConsumeCooldown, ConsumeMp, Advance,
      ResolveDamage, KillPlayer, vars, caster

-----------------------------------------------------------------------------
LEMMA InitBolt == Init => BoltInv
BY DEF Init, BoltInv

LEMMA BoltStep ==
  ASSUME BoltInv, CasterInv, WorldInv, TypeHits, [Next]_vars
  PROVE  BoltInv'
<1> USE CombatAssumption DEF CombatAssumption
<1>1. CASE UNCHANGED <<tick, phase, flights>>
  BY <1>1 DEF flights, BoltInv, Due, Flown, Age
<1>2. CASE StartTick
  BY <1>2 DEF StartTick, flights, BoltInv, Due, Flown, Age, Bolt, CasterInv
<1>3. CASE CollectIncoming \/ Taken
  BY <1>3 DEF CollectIncoming, Taken, flights, BoltInv, Due, Flown, Age
<1>4. CASE Execute
  <2>1. Head(due) \in Hit
    BY <1>4 DEF Execute, TypeHits
  <2> DEFINE b == [cast |-> Head(due).cast, expire |-> tick + Life, flown |-> 0]
  <2>2. b \in Bolt /\ Due(b)
    BY <2>1 DEF Hit, Bolt, Due, Age, CasterInv
  <2>3. bolts' = bolts \/ bolts' = bolts \cup {b}
    BY <1>4 DEF Execute, Slash, Launch, Fizzle
  <2> HIDE DEF b
  <2>4. /\ phase = "execute" /\ UNCHANGED <<tick, phase, left>>
    BY <1>4 DEF Execute
  <2>5. QED
    BY <2>2, <2>3, <2>4 DEF BoltInv, Due, Age
<1>5. CASE Executed
  BY <1>5 DEF Executed, BoltInv, Due, Age
<1>6. CASE Advance
  <2>1. PICK b \in left : /\ left' = left \ {b}
                          /\ Expire(b) \/ Fly(b) \/ HitWall(b) \/ HitTarget(b)
    BY <1>6 DEF Advance
  <2>2. phase = "advance" /\ UNCHANGED <<tick, phase>>
    BY <1>6 DEF Advance
  <2>3. b \in Bolt /\ Due(b) /\ tick \in Nat
    BY <2>1, <2>2 DEF BoltInv, CasterInv
  <2>4. CASE bolts' = bolts \ {b}
    BY <2>1, <2>2, <2>4 DEF BoltInv, Due, Flown, Age
  <2>5. CASE Fly(b)
    <3>1. /\ Moved(b) \in Bolt /\ Flown(Moved(b)) /\ ~Due(Moved(b))
          /\ bolts' = (bolts \ {b}) \cup {Moved(b)}
      BY <2>3, <2>5 DEF Fly, Moved, Bolt, Due, Flown, Age
    <3>2. Moved(b) \notin left
      BY <2>2, <3>1 DEF BoltInv
    <3>3. QED
      BY <2>1, <2>2, <3>1, <3>2 DEF BoltInv, Due, Flown, Age
  <2>6. QED
    BY <2>1, <2>4, <2>5 DEF Expire, HitWall, HitTarget
<1>7. CASE ProcessRespawns \/ EndTick
  BY <1>7 DEF ProcessRespawns, EndTick, flights, BoltInv, Due, Flown, Age
<1>8. QED
  BY <1>1, <1>2, <1>3, <1>4, <1>5, <1>6, <1>7, Steps
  DEF Join, Leave, CheckAlive, ReadTick, TryConsumeCooldown, ConsumeMp, EnqueueHit,
      TakeHit, ResolveDamage, KillPlayer, vars, flights
-----------------------------------------------------------------------------
(* A queue in which every cast is once has as many casts as entries.       *)
LEMMA CountedOnce ==
  ASSUME NEW q \in Seq(Hit), Once(q)
  PROVE  Cardinality(Casts(q)) = Len(q)
<1> DEFINE f == [k \in 1 .. Len(q) |-> q[k].cast]
<1>1. Len(q) \in Nat /\ DOMAIN q = 1 .. Len(q)
  OBVIOUS
<1>2. f \in [1 .. Len(q) -> Casts(q)]
  BY <1>1 DEF Casts
<1>3. \A j, k \in DOMAIN f : f[j] = f[k] => j = k
  BY <1>1 DEF Once
<1>4. \A x \in Casts(q) : \E k \in 1 .. Len(q) : f[k] = x
  BY <1>1 DEF Casts
<1> HIDE DEF f
<1>5. f \in Bijection(1 .. Len(q), Casts(q))
  BY <1>2, <1>3, <1>4 DEF Bijection, Injection, IsInjective, Surjection
<1>6. ExistsBijection(1 .. Len(q), Casts(q))
  BY <1>5 DEF ExistsBijection
<1>7. QED
  BY <1>1, <1>6, FS_CountingElements

LEMMA AllWaiting ==
  ASSUME TypeHits, QueueInv
  PROVE  EachCastOnce
<1> DEFINE ip == incoming \o pending
           is == ip \o scan
<1>1. /\ ip \in Seq(Hit) /\ Once(ip) /\ Casts(ip) = Casts(incoming) \cup Casts(pending)
  BY Joined DEF TypeHits, QueueInv
<1> HIDE DEF ip
<1>2. /\ is \in Seq(Hit) /\ Once(is)
      /\ Casts(is) = Casts(incoming) \cup Casts(pending) \cup Casts(scan)
  <2>1. Casts(ip) \cap Casts(scan) = {} /\ Once(scan) /\ scan \in Seq(Hit)
    BY <1>1 DEF TypeHits, QueueInv
  <2>2. QED
    BY <1>1, <2>1, Joined
<1> HIDE DEF is
<1>3. /\ is \o due \in Seq(Hit) /\ Once(is \o due)
      /\ Casts(is \o due)
           = Casts(incoming) \cup Casts(pending) \cup Casts(scan) \cup Casts(due)
  <2>1. Casts(is) \cap Casts(due) = {} /\ Once(due) /\ due \in Seq(Hit)
    BY <1>2 DEF TypeHits, QueueInv
  <2>2. QED
    BY <1>2, <2>1, Joined
<1>4. Waiting = is \o due
  BY DEF Waiting, ip, is
<1>5. Cardinality(Casts(Waiting)) = Len(Waiting)
  BY <1>3, <1>4, CountedOnce
<1>6. /\ Casts(Waiting) \cap done = {}
      /\ Casts(Waiting) \cup done = Accepted
  BY <1>3, <1>4 DEF QueueInv
<1>7. QED
  BY <1>5, <1>6 DEF EachCastOnce, Casts

-----------------------------------------------------------------------------
CombatInv == CasterInv /\ WorldInv /\ TypeHits /\ QueueInv /\ TimeInv /\ LifeInv /\ BoltInv

LEMMA CombatInvariant == Spec => []CombatInv
<1>1. Init => CombatInv
  BY InitCaster, InitWorld, InitHits, InitLife, InitBolt DEF CombatInv
<1>2. CombatInv /\ [Next]_vars => CombatInv'
  BY CasterStep, WorldStep, HitsStep, LifeStep, BoltStep DEF CombatInv
<1>3. QED
  BY <1>1, <1>2, PTL DEF Spec

(* Every variable has its type, for any number of sessions, slots and      *)
(* monsters.                                                               *)
THEOREM CombatTypeOK == Spec => []TypeOK
<1>1. CombatInv => TypeOK
  BY DEF CombatInv, CasterInv, WorldInv, TypeHits, LifeInv, BoltInv, TypeOK
<1>2. QED
  BY <1>1, CombatInvariant, PTL

(* No accepted cast is lost on its way through CombatSystem's queues, and  *)
(* none is executed twice.                                                 *)
THEOREM CastsOnce == Spec => []EachCastOnce
<1>1. CombatInv => EachCastOnce
  BY AllWaiting DEF CombatInv
<1>2. QED
  BY <1>1, CombatInvariant, PTL

(* TakeDueHits takes a hit in the tick its windup ends or in the first     *)
(* tick that knows of it, and leaves nothing behind that is due.           *)
THEOREM HitsOnTime == Spec => []OnTime
<1>1. CombatInv => OnTime
  <2> SUFFICES ASSUME CombatInv PROVE OnTime
    OBVIOUS
  <2>1. \A k \in DOMAIN due : due[k].at = tick \/ (due[k].at < tick /\ due[k].heard = tick)
    BY DEF CombatInv, TimeInv, DueNow
  <2>2. phase \notin {"idle", "collect"} => \A k \in DOMAIN pending : pending[k].at > tick
    BY DEF CombatInv, TimeInv
  <2>3. QED
    BY <2>1, <2>2 DEF OnTime
<1>2. QED
  BY <1>1, CombatInvariant, PTL

(* However the blows of a flush are ordered, a monster dies once per life  *)
(* and has a respawn tick exactly while it is dead.                        *)
THEOREM DeathsOnce == Spec => []OneDeathPerLife
<1>1. CombatInv => OneDeathPerLife
  BY DEF CombatInv, LifeInv
<1>2. QED
  BY <1>1, CombatInvariant, PTL

(* After the combat phase no projectile is past its time, and each has     *)
(* flown exactly once per tick of its life.                                *)
THEOREM BoltsExpire == Spec => []BoltsEnd
<1>1. CombatInv => BoltsEnd
  BY CombatAssumption DEF CombatAssumption, CombatInv, CasterInv, BoltInv, Flown, Age, BoltsEnd, Bolt
<1>2. QED
  BY <1>1, CombatInvariant, PTL

(* Two casts of a session are a cooldown apart, however the ticks fall     *)
(* between the steps of its handlers.                                      *)
THEOREM CastsSpaced == Spec => Spaced
<1>1. CombatInv /\ [Next]_vars =>
        [\A c \in Conn : casts'[c] > casts[c] /\ last[c] # None
                           => now[c] >= last[c] + Cooldown]_vars
  <2> SUFFICES ASSUME CombatInv, [Next]_vars, NEW c \in Conn,
                      casts'[c] > casts[c], last[c] # None
               PROVE  now[c] >= last[c] + Cooldown
    OBVIOUS
  <2>1. casts \in [Conn -> Nat] /\ Booked(c)
    BY DEF CombatInv, CasterInv
  <2>2. casts' # casts
    BY <2>1
  <2>3. PICK d \in Conn : EnqueueHit(d)
    BY <2>2, Steps
    DEF Join, Leave, CheckAlive, ReadTick, TryConsumeCooldown, ConsumeMp, StartTick,
        CollectIncoming, TakeHit, Taken, Execute, Executed, Advance, ProcessRespawns,
        ResolveDamage, EndTick, KillPlayer, vars, caster
  <2>4. casts' = [casts EXCEPT ![d] = @ + 1] /\ pc[d] = "paid"
    BY <2>3 DEF EnqueueHit
  <2>5. d = c
    BY <2>1, <2>4
  <2>6. QED
    BY <2>1, <2>4, <2>5 DEF Booked
<1>2. QED
  BY <1>1, CombatInvariant, PTL DEF Spec, Spaced
=============================================================================
