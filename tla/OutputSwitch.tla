---------------------------- MODULE OutputSwitch ----------------------------
(***************************************************************************)
(* What the plugin promises of a stream's packets, without contexts, mount *)
(* points or launch lines: a stream is published and withdrawn; while it   *)
(* is published it has at most one active output, the one built for it     *)
(* last; and a packet goes to the active output and to nothing else.       *)
(* Outputs are built for one stream and never handed to another.           *)
(***************************************************************************)
CONSTANTS Streams, Outputs, NoOutput, NoStream

VARIABLES
  published,  \* the streams that are published
  active,     \* the active output of each stream
  owner,      \* the stream an output was built for
  delivered   \* the streams whose packets an output has got

svars == <<published, active, owner, delivered>>

SwitchInit ==
  /\ published = {}
  /\ active = [s \in Streams |-> NoOutput]
  /\ owner = [o \in Outputs |-> NoStream]
  /\ delivered = [o \in Outputs |-> {}]

(* Publishing again starts afresh, without an output. *)
Publish(s) ==
  /\ published' = published \cup {s}
  /\ active' = [active EXCEPT ![s] = NoOutput]
  /\ UNCHANGED <<owner, delivered>>

Withdraw(s) ==
  /\ published' = published \ {s}
  /\ active' = [active EXCEPT ![s] = NoOutput]
  /\ UNCHANGED <<owner, delivered>>

(* A new output becomes the active one, or never becomes active at all. *)
Build(s, o) ==
  /\ owner[o] = NoStream
  /\ owner' = [owner EXCEPT ![o] = s]
  /\ \/ s \in published /\ active' = [active EXCEPT ![s] = o]
     \/ UNCHANGED active
  /\ UNCHANGED <<published, delivered>>

Deliver(s) ==
  /\ s \in published /\ active[s] # NoOutput
  /\ delivered' = [delivered EXCEPT ![active[s]] = @ \cup {s}]
  /\ UNCHANGED <<published, active, owner>>

SwitchNext ==
  \E s \in Streams :
    \/ Publish(s) \/ Withdraw(s) \/ Deliver(s)
    \/ \E o \in Outputs : Build(s, o)

SwitchSpec == SwitchInit /\ [][SwitchNext]_svars
=============================================================================
