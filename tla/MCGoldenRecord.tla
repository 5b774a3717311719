-------------------------- MODULE MCGoldenRecord --------------------------
(***************************************************************************)
(* Model checking GoldenRecord: two companies and a person who works at    *)
(* the first.  Records 1 to 3 created them; 4 is about company 1, 5 about  *)
(* the person and company 1.  A field may be absent (0) or blank (-1).      *)
(***************************************************************************)
EXTENDS GoldenRecord

MCEntities == 1..3
MCKind == <<"company", "company", "person">>
MCFounder == <<1, 2, 3>>
MCTargets == <<<<1>>, <<2>>, <<3>>, <<1>>, <<3, 1>>>>
MCFields == {"email", "phone", "name", "founded"}
Says(email, phone, name, founded) ==
    [f \in MCFields |-> CASE f = "email" -> email [] f = "phone" -> phone
                           [] f = "name" -> name [] OTHER -> founded]
MCClaims == << <<Says(1, 1, 1, 2)>>,
               <<Says(2, 1, 2, 1)>>,
               <<Says(1, -1, 1, 0)>>,
               <<Says(-1, 2, 1, 1)>>,
               <<Says(1, 2, 2, -1), Says(2, 1, 2, 2)>> >>
MCSourceOf == <<1, 2, 1, 2, 3>>
MCReliability == <<60, 80, 70>>
MCStrategy == [f \in MCFields |-> CASE f = "email" -> "most_reliable_source"
                                    [] f = "phone" -> "most_recent"
                                    [] f = "name"  -> "most_frequent"
                                    [] OTHER       -> "earliest"]
MCGoldenFlags == {TRUE}
MCAnyGoldenFlags == BOOLEAN

===========================================================================
