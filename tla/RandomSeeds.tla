------------------------------ MODULE RandomSeeds ------------------------------
(***************************************************************************)
(* The seed of the random generators (src/random.cc): set_random_seed, of  *)
(* any thread, and get_random_generator, whose generator and seen epoch    *)
(* are thread local. The loads and stores of the two atomic variables are  *)
(* steps of their own.                                                     *)
(***************************************************************************)
EXTENDS Naturals

CONSTANTS
  Setters,      \* threads that call set_random_seed
  Workers,      \* threads that draw numbers
  Seeds,        \* arguments of set_random_seed
  DefaultSeed,  \* default_seed, one of Seeds, which asks for random_device
  Device,       \* a seed of random_device, not one of Seeds
  MaxSets,      \* bound on the calls of set_random_seed
  MaxDraws      \* bound on the numbers that a thread draws

VARIABLES
  g_seed,        \* seed of the next generators
  g_seed_epoch,  \* number of times that it was set, a uint64_t
  setter,        \* whether each setter is between its two stores
  pc,            \* next step of the call of each worker
  generators,    \* its generator: a seed and the numbers drawn from it
  seen_epoch,    \* epoch that its generator follows
  epoch,         \* local variable of get_random_generator
  sets,          \* history: calls of set_random_seed begun
  draws,         \* history: numbers that each worker has drawn
  fresh,         \* history: whether no set ran since its last call began
  raced,         \* history: whether the last set ran while its generator was built
  since          \* history: numbers drawn since the seed was last set, or Lost
                 \* when a call of the worker was running then

Lost == MaxDraws + 1
NoGenerator == [seed |-> DefaultSeed, drawn |-> 0]

setVars == <<g_seed, g_seed_epoch, setter, sets>>
callVars == <<generators, seen_epoch, epoch, draws>>
historyVars == <<fresh, raced, since>>
seedVars == <<setVars, pc, callVars, historyVars>>

Building == {"construct", "construct_load", "see"}
InCall(w) == pc[w] \notin {"new", "idle"}
Setting == \E s \in Setters : setter[s]

SeedInit ==
  /\ g_seed = DefaultSeed
  /\ g_seed_epoch = 0
  /\ setter = [s \in Setters |-> FALSE]
  /\ pc = [w \in Workers |-> "new"]
  /\ generators = [w \in Workers |-> NoGenerator]
  /\ seen_epoch = [w \in Workers |-> 0]
  /\ epoch = [w \in Workers |-> 0]
  /\ sets = 0
  /\ draws = [w \in Workers |-> 0]
  /\ fresh = [w \in Workers |-> FALSE]
  /\ raced = [w \in Workers |-> FALSE]
  /\ since = [w \in Workers |-> 0]

-----------------------------------------------------------------------------
(* set_random_seed.                                                        *)

(* What the history remembers of a set that begins, and that ends. *)
Begun ==
  /\ fresh' = [w \in Workers |-> FALSE]
  /\ raced' = [w \in Workers |-> raced[w] \/ pc[w] \in Building]
  /\ UNCHANGED since

Ended ==
  /\ fresh' = [w \in Workers |-> FALSE]
  /\ raced' = [w \in Workers |-> pc[w] \in Building]
  /\ since' = [w \in Workers |-> IF InCall(w) THEN Lost ELSE 0]

StoreSeed(s) ==
  /\ ~setter[s] /\ sets < MaxSets
  /\ \E seed \in Seeds : g_seed' = seed
  /\ setter' = [setter EXCEPT ![s] = TRUE]
  /\ sets' = sets + 1
  /\ Begun
  /\ UNCHANGED <<g_seed_epoch, pc, callVars>>

BumpEpoch(s) ==
  /\ setter[s]
  /\ g_seed_epoch' = g_seed_epoch + 1
  /\ setter' = [setter EXCEPT ![s] = FALSE]
  /\ Ended
  /\ UNCHANGED <<g_seed, sets, pc, callVars>>

(* Mistake: the epoch announces a seed that is not there yet. *)
BumpEpochFirst(s) ==
  /\ ~setter[s] /\ sets < MaxSets
  /\ g_seed_epoch' = g_seed_epoch + 1
  /\ setter' = [setter EXCEPT ![s] = TRUE]
  /\ sets' = sets + 1
  /\ Begun
  /\ UNCHANGED <<g_seed, pc, callVars>>

StoreSeedLast(s) ==
  /\ setter[s]
  /\ \E seed \in Seeds : g_seed' = seed
  /\ setter' = [setter EXCEPT ![s] = FALSE]
  /\ Ended
  /\ UNCHANGED <<g_seed_epoch, sets, pc, callVars>>

SetSwapped(s) == BumpEpochFirst(s) \/ StoreSeedLast(s)

SetRandomSeed(s) == StoreSeed(s) \/ BumpEpoch(s)

-----------------------------------------------------------------------------
(* get_random_generator.                                                   *)

Goes(w, step) == pc' = [pc EXCEPT ![w] = step]
Seeded(w, seed) == generators' = [generators EXCEPT ![w] = [seed |-> seed, drawn |-> 0]]

(* The first call of a thread builds its generator. *)
Call(w) ==
  /\ ~InCall(w) /\ draws[w] < MaxDraws
  /\ Goes(w, IF pc[w] = "new" THEN "construct" ELSE "load")
  /\ fresh' = [fresh EXCEPT ![w] = ~Setting]
  /\ UNCHANGED <<setVars, callVars, raced, since>>

(* get_random_seed compares g_seed with the default, then loads it again.  *)
GetSeed(w, from, load, to) ==
  \/ /\ pc[w] = from
     /\ IF g_seed = DefaultSeed
          THEN Seeded(w, Device) /\ Goes(w, to)
          ELSE UNCHANGED generators /\ Goes(w, load)
  \/ /\ pc[w] = load
     /\ Seeded(w, g_seed) /\ Goes(w, to)

Construct(w) ==
  /\ GetSeed(w, "construct", "construct_load", "see")
  /\ UNCHANGED <<setVars, seen_epoch, epoch, draws, historyVars>>

SeeEpoch(w) ==
  /\ pc[w] = "see"
  /\ seen_epoch' = [seen_epoch EXCEPT ![w] = g_seed_epoch]
  /\ Goes(w, "load")
  /\ UNCHANGED <<setVars, generators, epoch, draws, historyVars>>

LoadEpoch(w) ==
  /\ pc[w] = "load"
  /\ epoch' = [epoch EXCEPT ![w] = g_seed_epoch]
  /\ Goes(w, IF g_seed_epoch # seen_epoch[w] THEN "reseed" ELSE "draw")
  /\ UNCHANGED <<setVars, generators, seen_epoch, draws, historyVars>>

Reseed(w) ==
  /\ GetSeed(w, "reseed", "reseed_load", "seen")
  /\ UNCHANGED <<setVars, seen_epoch, epoch, draws, historyVars>>

MarkSeen(w) ==
  /\ pc[w] = "seen"
  /\ seen_epoch' = [seen_epoch EXCEPT ![w] = epoch[w]]
  /\ Goes(w, "draw")
  /\ UNCHANGED <<setVars, generators, epoch, draws, historyVars>>

(* The operator draws its number. *)
Draw(w) ==
  /\ pc[w] = "draw"
  /\ generators' = [generators EXCEPT ![w].drawn = @ + 1]
  /\ draws' = [draws EXCEPT ![w] = @ + 1]
  /\ since' = [since EXCEPT ![w] = IF @ = Lost THEN Lost ELSE @ + 1]
  /\ Goes(w, "idle")
  /\ UNCHANGED <<setVars, seen_epoch, epoch, fresh, raced>>

Generate(w) ==
  Call(w) \/ Construct(w) \/ SeeEpoch(w) \/ LoadEpoch(w) \/ Reseed(w) \/ MarkSeen(w) \/ Draw(w)

SeedNext == (\E s \in Setters : SetRandomSeed(s)) \/ (\E w \in Workers : Generate(w))

SeedSpec == SeedInit /\ [][SeedNext]_seedVars

-----------------------------------------------------------------------------
(* The seed that a generator has to get: DefaultSeed is never one. *)
Wanted == IF g_seed = DefaultSeed THEN Device ELSE g_seed

(* The last call of w began after the last set, and no other set began. *)
Settled(w) == pc[w] = "idle" /\ fresh[w] /\ g_seed_epoch > 0

(* Seeding is reproducible (tests/metal_test.cc, test_random_sampling): a  *)
(* call that begins after set_random_seed returned draws from the stream   *)
(* of the new seed, unless the set ran while the generator of the thread   *)
(* was built; and when no call was running as it returned, the numbers of  *)
(* the thread are the first ones of that stream, in order, whatever it and *)
(* the other threads drew before, and even when it had reseeded between    *)
(* the two stores. DefaultSeed is not taken for a seed.                    *)
SeedIsReproducible ==
  \A w \in Workers : Settled(w) =>
    /\ ~raced[w] => generators[w].seed = Wanted
    /\ since[w] # Lost => generators[w] = [seed |-> Wanted, drawn |-> since[w]]
=============================================================================
