--------------------------- MODULE MCDriverProcess ---------------------------
(***************************************************************************)
(* A small instance of DriverProcess: the first facility of the node's     *)
(* code has storage, another of the same code does not.                    *)
(***************************************************************************)
EXTENDS DriverProcess

FacilityList == <<[code |-> "ams1", features |-> {}],
                  [code |-> "ewr1", features |-> {"storage"}],
                  [code |-> "ewr1", features |-> {}]>>

\* Nothing; a token but no project; a facility to be found; and settings from
\* both places, one of them twice.
Settings == {<<{}, {}>>, <<{"apiKey"}, {"facility-id"}>>,
             <<{}, {"apiKey", "projectId"}>>,
             <<{"apiKey", "facility-id"}, {"projectId", "facility-id"}>>}
=============================================================================
