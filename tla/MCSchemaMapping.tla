--------------------------- MODULE MCSchemaMapping ---------------------------
(* Part of the person vocabulary, and names that real columns have, with    *)
(* what matching yields for them: linkedin, company_linkedin, linkedin_page, *)
(* comp_linkedin, linkdin, location and notes.                              *)
EXTENDS SchemaMapping, TLC

CONSTANTS c1, c2, c3, b1, b2, r1, r2

ThreeColumns == {c1, c2, c3}

PersonVocabulary ==
  <<[name |-> "twitter_url", subject |-> "self", detector |-> "url", splits |-> TRUE],
    [name |-> "linkedin_url", subject |-> "self", detector |-> "linkedin", splits |-> TRUE],
    [name |-> "city", subject |-> "self", detector |-> "none", splits |-> FALSE],
    [name |-> "linkedin_url", subject |-> "employer", detector |-> "linkedin", splits |-> TRUE]>>

Name(exact, ambiguous, similar) ==
  [alias |-> [f \in 1..4 |-> IF f \in exact THEN "exact"
                             ELSE IF f \in ambiguous THEN "ambiguous" ELSE "none"],
   similar |-> similar]

Linkedin == Name({2}, {}, <<0, 100, 0, 67>>)
CompanyLinkedin == Name({4}, {}, <<0, 67, 0, 100>>)
LinkedinPage == Name({}, {}, <<0, 76, 0, 0>>)
CompLinkedin == Name({}, {}, <<0, 76, 0, 89>>)
Linkdin == Name({}, {}, <<0, 93, 0, 61>>)
Location == Name({}, {3}, <<0, 0, 63, 0>>)
Notes == Name({}, {}, <<0, 0, 0, 0>>)

\* Any two names beside a column whose name says nothing.
RealLayouts ==
  {c1 :> x @@ c2 :> y @@ c3 :> Notes :
     x, y \in {Linkedin, CompanyLinkedin, LinkedinPage, CompLinkedin, Linkdin, Location, Notes}}

NoValues == [url |-> 0, linkedin |-> 0]
Urls == [url |-> 100, linkedin |-> 0]
LinkedInUrls == [url |-> 100, linkedin |-> 100]

\* The first batch has LinkedIn pages in all columns or in one, or other
\* addresses; the second batch is a header without rows.
TwoSamples ==
  {b1 :> s @@ b2 :> [c \in ThreeColumns |-> NoValues] :
     s \in {[c \in ThreeColumns |-> LinkedInUrls], [c \in ThreeColumns |-> Urls],
           c1 :> NoValues @@ c2 :> LinkedInUrls @@ c3 :> Urls}}

\* The first column of the first record holds two addresses.
TwoAddresses == {<<r1, c1>>}

BatchOfBoth == [r \in {r1, r2} |-> b1]

=============================================================================
