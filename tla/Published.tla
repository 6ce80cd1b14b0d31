------------------------------ MODULE Published ------------------------------
(***************************************************************************)
(* What a user of txn_box expects of the global configuration, whatever    *)
(* the threads do: one configuration is in force at a time, a reload puts  *)
(* a younger one in force in one step or changes nothing, a transaction is *)
(* ruled from start to end by the configuration in force when it began.    *)
(***************************************************************************)
EXTENDS Naturals

CONSTANTS
  Txn,      \* transactions
  Version   \* the configurations, by the order in which their loads began

VARIABLES
  inForce,  \* the version in force, NoVersion when there is none
  running,  \* the transactions that are running
  ruledBy   \* for each of them, the version that rules it

NoVersion == 0

PublishedInit ==
  /\ inForce \in Version
  /\ running = {}
  /\ ruledBy = [t \in Txn |-> NoVersion]

Publish(v) ==
  /\ v > inForce
  /\ inForce' = v
  /\ UNCHANGED <<running, ruledBy>>

Withdraw ==
  /\ inForce' = NoVersion
  /\ UNCHANGED <<running, ruledBy>>

Begin(t) ==
  /\ t \notin running
  /\ running' = running \cup {t}
  /\ ruledBy' = [ruledBy EXCEPT ![t] = inForce]
  /\ UNCHANGED inForce

End(t) ==
  /\ t \in running
  /\ running' = running \ {t}
  /\ ruledBy' = [ruledBy EXCEPT ![t] = NoVersion]
  /\ UNCHANGED inForce

PublishedNext ==
  \/ \E v \in Version : Publish(v)
  \/ Withdraw
  \/ \E t \in Txn : Begin(t) \/ End(t)

PublishedSpec == PublishedInit /\ [][PublishedNext]_<<inForce, running, ruledBy>>
=============================================================================
