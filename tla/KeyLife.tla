------------------------------ MODULE KeyLife ------------------------------
(***************************************************************************)
(* What a device promises about its one-time prekeys, whatever its server,  *)
(* its crashes and its retries do.  A key is made once, a peer can only be  *)
(* given a key whose private half the device still stores, and a key that   *)
(* opened a first message is gone for good.  Prekeys implements this.       *)
(***************************************************************************)
VARIABLES
    held,     \* keys whose private half the device stores
    offered,  \* keys that were, at some time, on the server
    spent     \* keys a first message used up

lifeVars == <<held, offered, spent>>

LifeInit ==
    /\ offered \subseteq held
    /\ spent = {}

\* New keys: never offered and never spent before.
Make ==
    /\ held \subseteq held'
    /\ (held' \ held) \cap (offered \cup spent) = {}
    /\ UNCHANGED <<offered, spent>>

\* Keys reach the server for the first time, all of them stored here already.
Offer ==
    /\ offered \subseteq offered'
    /\ offered' \ offered \subseteq held
    /\ UNCHANGED <<held, spent>>

\* One first message uses the keys it names, which were offered before.
Spend ==
    /\ spent \subseteq spent'
    /\ spent' \ spent \subseteq held \cap offered
    /\ held' = held \ (spent' \ spent)
    /\ UNCHANGED offered

LifeNext == Make \/ Offer \/ Spend

LifeSpec == LifeInit /\ [][LifeNext]_lifeVars
=============================================================================
