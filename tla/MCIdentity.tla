----------------------------- MODULE MCIdentity -----------------------------
(* Who is calling: the caches of the issuer's keys and of its discovery    *)
(* document, and the accounts.  They share nothing, so that in one         *)
(* behaviour only one of them moves.  Tokens without a key id are only     *)
(* validated locally here: remotely they are as those with a known one.    *)
EXTENDS MCKeyCache, Discovery, Accounts

CONSTANTS q1, q2, alice, bob, carol, dave

VARIABLE focus

\* The issuer may advertise itself, the backchannel, and somebody else.
At(origin, scheme) ==
  [scheme |-> scheme, origin |-> origin, beneath |-> TRUE,
   internal |-> origin = "backchannel"]
Public == [name \in Endpoint |-> IF name \in Required THEN At("issuer", "https")
                                                      ELSE NoURL]
Internal == [Public EXCEPT !["jwks"] = At("backchannel", "http")]
Foreign == [Public EXCEPT !["authorization"] = At("other", "https")]
MCDocument == {Public, Internal, Foreign}
MCExplicit == [name \in Endpoint |-> IF name = "userinfo"
                                     THEN At("backchannel", "http") ELSE NoURL]

\* dave's email is in a domain that is not allowed; bob's issuer is not attested.
MCIssuer == alice :> "attested" @@ bob :> "plain"
MCDomain == carol :> "allowed" @@ dave :> "other"
MCAsserted == [i \in Identity |-> Email]

keyVars == vars
allVars == <<focus, keyVars, callVars, accountsVars>>

IdentityInit ==
  /\ Init /\ DiscoveryInit /\ AccountsInit
  /\ focus \in {"keys", "discovery", "links", "webhooks"}
  /\ IF focus = "keys" THEN Cardinality(published) = 1 ELSE published = Kid
  /\ \/ focus = "links"
     \/ focus = "webhooks" /\ row = (carol :> NewRow(NoOne) @@ dave :> NoRow)
     \/ focus \in {"keys", "discovery"} /\ \A e \in Email : row[e] = NoRow

IdentityNext ==
  /\ UNCHANGED focus
  /\ \/ /\ focus = "keys" /\ Next /\ Cardinality(published') <= MaxPublished
        /\ \A t \in Thread : req'[t].pc = "lookup" => req'[t].kid # NoKid
        /\ UNCHANGED <<callVars, accountsVars>>
     \/ /\ focus = "discovery" /\ DiscoveryNext
        /\ UNCHANGED <<keyVars, accountsVars>>
     \/ /\ focus = "links" /\ Links
        /\ UNCHANGED <<keyVars, callVars>>
     \/ /\ focus = "webhooks" /\ Webhooks
        /\ UNCHANGED <<keyVars, callVars>>

IdentitySpec == IdentityInit /\ [][IdentityNext]_allVars

\* Accounts alone, only their links.
LinksSpec == /\ IdentityInit /\ focus = "links"
             /\ [][IdentityNext]_allVars

\* The caches and the accounts are well formed; documents are valid and
\* identities unique.  Only what moves is looked at.
IdentityTypeOK ==
  /\ focus = "keys" => TypeOK
  /\ focus = "discovery" => DiscoveryTypeOK
  /\ focus \in {"links", "webhooks"} => AccountsTypeOK
=============================================================================
