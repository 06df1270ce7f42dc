---------------------------- MODULE MCAccountAccess ----------------------------
EXTENDS AccountAccess, TLC

CONSTANTS u1, d1, d2, d3, r1, r2

OwnDevice == [u \in Users |-> d1]
\* Behind a proxy.
OriginDevice == [u \in Users |-> d2]
\* A desktop, a telephone with a number, and one without.
ChannelOfDevice == [d \in Devices |-> CASE d = d1 -> "email" [] d = d2 -> "sms" [] OTHER -> "none"]

\* A behaviour that starts with a sign-up has one other client and a mishap; one of users
\* who have signed up before, with or without two-factor authentication, has two clients.
VARIABLE company

CompanyInit ==
    /\ Init
    /\ company = IF \A u \in Users : account[u].is THEN {r1, r2} ELSE {r1}

\* Two clients need a code more.
CompanyNext ==
    /\ Next
    /\ UNCHANGED company
    /\ \A r \in Clients \ company : req'[r] = req[r]
    /\ IF company = {r1} THEN \A r \in Requests : req'[r].new # 4 ELSE mishaps' = 0

CompanySpec == CompanyInit /\ [][CompanyNext]_<<vars, company>> /\ Fairness
=============================================================================
