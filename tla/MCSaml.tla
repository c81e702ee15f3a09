------------------------------- MODULE MCSaml -------------------------------
(***************************************************************************)
(* Small instances of the two SAML sides: service providers and their      *)
(* sign-ins (SamlSso), in four scenarios, and the connections to identity  *)
(* providers (SamlConnections), in a fifth.  One side moves while the      *)
(* other is in its initial state.                                          *)
(***************************************************************************)
EXTENDS SamlSso, TLC

CONSTANTS s1, s2, e1, e2, u1, g1, g2, p1, p2, b1, b2, t1, t2, i1, i2

VARIABLES scenario, idp, certs, listed, saving, pub, sgn, known

Connections == INSTANCE SamlConnections
    WITH Idps <- {i1, i2}, Partners <- {e1}, Requests <- {p1}, MaxKeys <- 2, req <- saving

connectionVars == <<idp, certs, listed, saving, pub, sgn, known>>

TwoGroups == {<<g1, g1>>, <<g2, g2>>, <<g1, g2>>}

(* Two administrators at once and nobody signs in.                          *)
Administrators ==
    /\ UNCHANGED ssoVars
    /\ assigned' = {} /\ member' = {}
    /\ \A s \in Apps : Exists(s)' => ~sp'[s].slo /\ ~sp'[s].open /\ ~sp'[s].persistent
    /\ \A p \in Requests : /\ req'[p].at = "update" => req'[p].x[1] = "enabled"
                           /\ req'[p].at \notin {"assign", "bulk"}

(* One user in two browsers at one provider.                                *)
TwoBrowsers ==
    /\ sp'[s2] = None /\ req'[p2] = Idle
    /\ Exists(s1)' => sp'[s1].entity = e1 /\ sp'[s1].trust /\ sp'[s1].slo /\ sp'[s1].url
    /\ assigned' = {} /\ member' = {}
    /\ req'[p1].at \in {"idle", "insert", "delete", "update"}
    /\ req'[p1].at = "update" => req'[p1].x \in {<<"open", TRUE>>, <<"persistent", TRUE>>, <<"enabled", FALSE>>}

(* One browser at one provider that is assigned to groups.                  *)
Assignments ==
    /\ sp'[s2] = None /\ req'[p2] = Idle
    /\ tab'[t2] = Free /\ cookie'[b2] = NoSession
    /\ Exists(s1)' => /\ sp'[s1].entity = e1 /\ sp'[s1].trust /\ sp'[s1].slo /\ sp'[s1].url
                      /\ ~sp'[s1].open /\ ~sp'[s1].persistent

(* One browser at two providers, all of them open to everybody.             *)
TwoApps ==
    /\ tab'[t2] = Free /\ cookie'[b2] = NoSession /\ req'[p2] = Idle
    /\ assigned' = {} /\ member' = {}
    /\ \A s \in Apps : Exists(s)' => /\ sp'[s].trust /\ sp'[s].slo /\ sp'[s].url
                                     /\ ~sp'[s].persistent
    /\ req'[p1].at = "update" => req'[p1].x \in {<<"open", TRUE>>, <<"enabled", TRUE>>, <<"enabled", FALSE>>}

(* The second connection is set up by hand.                                 *)
SecondByHand ==
    /\ idp'[i2] # None => idp'[i2].url = None /\ ~idp'[i2].enabled
    /\ saving'[p1].i = i2 => saving'[p1].keys = {}

MCInit ==
    /\ Init /\ Connections!Init
    /\ scenario \in {"administrators", "browsers", "groups", "apps", "connections"}

MCNext ==
    \/ /\ scenario = "administrators"
       /\ SpStep /\ Administrators
       /\ UNCHANGED <<connectionVars, scenario>>
    \/ /\ scenario \in {"browsers", "groups", "apps"}
       /\ Next
       /\ scenario = "browsers" => TwoBrowsers
       /\ scenario = "groups" => Assignments
       /\ scenario = "apps" => TwoApps
       /\ UNCHANGED <<connectionVars, scenario>>
    \/ /\ scenario = "connections"
       /\ Connections!Next
       /\ SecondByHand
       /\ UNCHANGED <<vars, scenario>>

MCSpec == MCInit /\ [][MCNext]_<<vars, connectionVars, scenario>>

\* SamlConnections: a partner that publishes a key, waits until the connections
\* have it and then signs with it is never locked out.
SigningKeyAccepted == Connections!SigningKeyAccepted

Symmetry == Permutations({p1, p2}) \cup Permutations({t1, t2}) \cup Permutations({b1, b2})
=============================================================================
