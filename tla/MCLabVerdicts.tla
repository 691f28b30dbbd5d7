--------------------------- MODULE MCLabVerdicts ---------------------------
(* An instance of LabVerdicts for TLC: a model that writes items whose     *)
(* events the state machine does not expect in the state they seed, or     *)
(* that seed none; and selections of no scenario, of every one or two, of  *)
(* every three neighbours in the library, and of all that are known to     *)
(* fail.                                                                   *)
EXTENDS LabVerdicts

WrittenItems ==
  {Scenario("AI", "HIGH", FALSE, "AUTHORIZED", <<Signed("raw_malformed"), failed>>,
            WithPolicy("FAILED", "REJECT")),
   Scenario("AI", "CRITICAL", TRUE, "PENDING_RAIL",
            <<Signed("illegal_state_jump"), captured>>, WithTask("MANUAL_REVIEW")),
   Scenario("AI", "HIGH", FALSE, "PROCESSING", <<checked>>, Want("CAPTURED"))}

Types == {Library[i].type : i \in DOMAIN Library}

AskedFor ==
  {{}, KnownFailures} \cup {{s, t} : s, t \in Types}
  \cup {{Library[j].type : j \in i..(i + 2)} : i \in 1..(Len(Library) - 2)}
=============================================================================
