----------------------- MODULE MCEmployerResolution -----------------------
(***************************************************************************)
(* Instances of EmployerResolution for TLC.  A person has an e-mail, which *)
(* links unless it is that of a function, and a name with a company name,  *)
(* which is worth a review.  A company has domains and a mailbox, which    *)
(* link unless its source lists premises, a name, which is worth a review, *)
(* and a phone number, which is worth nothing alone.                       *)
(***************************************************************************)
EXTENDS EmployerResolution, TLC

CONSTANTS email, nameCompany, domain, otherDomain, mailbox, name, phone

MCKeys == {email, nameCompany, domain, otherDomain, mailbox, name, phone}
MCStrong == {email, domain, otherDomain, mailbox}
MCKeyType == [k \in MCKeys |-> IF k = otherDomain THEN domain ELSE k]
MCWeight == (email :> 95) @@ (nameCompany :> 80) @@ (domain :> 92) @@ (otherDomain :> 92)
            @@ (mailbox :> 90) @@ (name :> 65) @@ (phone :> 45)

NoEmployer == [named |-> FALSE, corroborated |-> FALSE, keys |-> {}]

\* A name alone, a name with an address, and a name with a domain.
Vague == [named |-> TRUE, corroborated |-> FALSE, keys |-> {name}]
ByAddress == [Vague EXCEPT !.corroborated = TRUE]
ByDomain == [ByAddress EXCEPT !.keys = {name, domain}]

Person(keys, employer) ==
    [kind |-> "person", keys |-> keys, demoting |-> FALSE, employer |-> employer]
Company(keys) ==
    [kind |-> "company", keys |-> keys, demoting |-> FALSE, employer |-> NoEmployer]
Demoting(said) == [said EXCEPT !.demoting = TRUE]

MCStatements ==
    {Person({email, nameCompany}, employer) : employer \in {Vague, ByAddress, ByDomain}}
    \cup {Demoting(Person({email}, ByDomain))}
    \cup {Company({name, phone}), Company({name, domain}), Company({otherDomain}),
          Company({domain, otherDomain}), Company({mailbox, phone}),
          Company({domain, mailbox}), Demoting(Company({domain, mailbox}))}
===========================================================================
