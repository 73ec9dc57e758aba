-------------------------- MODULE TokenAuthProofs --------------------------
(***************************************************************************)
(* Safety of TokenAuth for any number of subjects, requests, tokens,       *)
(* clock ticks and restarts, when the process generates its own secret.    *)
(***************************************************************************)
EXTENDS TokenAuth, FiniteSetTheorems, TLAPS

\* What holds whichever way the secret is obtained: types, and fresh JTIs.
Base ==
  /\ TypeOK
  /\ req = [c \in Clients |-> req[c]]
  /\ IsFiniteSet(minted)
  /\ \A t \in minted : t.jti < Cardinality(minted)

-----------------------------------------------------------------------------
(* A pair issued by create_access_token and create_refresh_token is new: its *)
(* JTIs were not in use and the number of minted tokens grows by two.        *)
LEMMA PairIsFresh ==
  ASSUME NEW M, IsFiniteSet(M), NEW a, NEW b,
         \A t \in M : t.jti < Cardinality(M),
         a.jti = Cardinality(M), b.jti = Cardinality(M) + 1
  PROVE  /\ IsFiniteSet(M \cup {a, b})
         /\ Cardinality(M \cup {a, b}) = Cardinality(M) + 2
         /\ Cardinality(M) \in Nat
<1>1. Cardinality(M) \in Nat
  BY FS_CardinalityType
<1>2. a \notin M /\ b \notin M /\ a # b
  BY <1>1
<1>3. /\ IsFiniteSet(M \cup {a})
      /\ Cardinality(M \cup {a}) = Cardinality(M) + 1
  BY <1>2, FS_AddElement
<1>4. /\ IsFiniteSet((M \cup {a}) \cup {b})
      /\ Cardinality((M \cup {a}) \cup {b}) = Cardinality(M \cup {a}) + 1
  BY <1>2, <1>3, FS_AddElement
<1>5. (M \cup {a}) \cup {b} = M \cup {a, b}
  OBVIOUS
<1> QED
  BY <1>1, <1>3, <1>4, <1>5

(* What issuing a pair does to the tokens in circulation and on record. *)
LEMMA IssuePairEffect ==
  ASSUME Base, NEW sub \in Subjects, NEW role \in Roles, NEW scopes \in SUBSET AllScopes,
         IssuePair(sub, role, scopes)
  PROVE  /\ NextJti \in Nat
         /\ \E a, b \in Token :
              /\ a.jti = NextJti /\ a.key = Secret /\ a.sub = sub
              /\ b.jti = NextJti + 1 /\ b.key = Secret /\ b.sub = sub
              /\ minted' = minted \cup {a, b}
              /\ issued' = issued \cup {a, b}
         /\ IsFiniteSet(minted')
         /\ Cardinality(minted') = Cardinality(minted) + 2
<1> DEFINE a == CreateAccessToken(NextJti, sub, role, scopes)
           b == CreateRefreshToken(NextJti + 1, sub, role, scopes)
<1>1. NextJti \in Nat
  BY FS_CardinalityType DEF Base, NextJti
<1>2. Secret \in Nat
  BY DEF Base, TypeOK, Secret
<1>3. a \in Token /\ b \in Token
  BY <1>1, <1>2, AuthAssumption DEF CreateAccessToken, CreateRefreshToken, CreateToken, Token, Base, TypeOK
<1>4. /\ a.jti = NextJti /\ a.key = Secret /\ a.sub = sub
      /\ b.jti = NextJti + 1 /\ b.key = Secret /\ b.sub = sub
  BY DEF CreateAccessToken, CreateRefreshToken, CreateToken
<1>5. minted' = minted \cup {a, b} /\ issued' = issued \cup {a, b}
  BY DEF IssuePair
<1> HIDE DEF a, b
<1>6. IsFiniteSet(minted') /\ Cardinality(minted') = Cardinality(minted) + 2
  BY <1>4, <1>5, PairIsFresh DEF Base, NextJti
<1> QED
  BY <1>1, <1>3, <1>4, <1>5, <1>6

-----------------------------------------------------------------------------
(* A step that issues a pair and leaves the requests alone, or answers one, *)
(* keeps the types and the freshness of the JTIs.                           *)
LEMMA IssueKeepsBase ==
  ASSUME Base, NEW sub \in Subjects, NEW role \in Roles, NEW scopes \in SUBSET AllScopes,
         IssuePair(sub, role, scopes)
  PROVE  /\ minted' \subseteq Token
         /\ minted \subseteq minted'
         /\ issued' \subseteq minted'
         /\ IsFiniteSet(minted')
         /\ \A t \in minted' : t.jti < Cardinality(minted')
<1>1. PICK a \in Token, b \in Token :
        /\ a.jti = NextJti /\ b.jti = NextJti + 1
        /\ minted' = minted \cup {a, b} /\ issued' = issued \cup {a, b}
  BY IssuePairEffect
<1>2. /\ Cardinality(minted') = NextJti + 2
      /\ NextJti \in Nat
      /\ IsFiniteSet(minted')
  BY IssuePairEffect DEF NextJti
<1>3. \A t \in minted : t.jti \in Nat /\ t.jti < NextJti
  BY DEF Base, TypeOK, Token, NextJti
<1>4. ASSUME NEW t \in minted' PROVE t.jti < Cardinality(minted')
  <2>1. CASE t \in minted
    BY <1>2, <1>3, <2>1
  <2>2. CASE t \in {a, b}
    BY <1>1, <1>2, <2>2
  <2> QED
    BY <1>1, <2>1, <2>2
<1>5. minted \subseteq Token /\ issued \subseteq minted
  BY DEF Base, TypeOK
<1>6. minted' \subseteq Token /\ minted \subseteq minted' /\ issued' \subseteq minted'
  BY <1>1, <1>5
<1> QED
  BY <1>2, <1>4, <1>6

(* The requests of a state stay well-formed when tokens are only added. *)
LEMMA RequestsStayOK ==
  ASSUME Base, minted \subseteq minted', NEW c \in Clients,
         \/ req' = req
         \/ \E d \in Clients : req' = [req EXCEPT ![d] = Idle]
  PROVE  RequestOK(req[c])'
  BY DEF Base, TypeOK, RequestOK, Idle

-----------------------------------------------------------------------------
(* Every step keeps the types and the freshness of the JTIs. *)
LEMMA BaseInductive == Base /\ [Next]_vars => Base'
<1> SUFFICES ASSUME Base, [Next]_vars PROVE Base'
  OBVIOUS
<1> USE AuthAssumption
<1>1. ASSUME NEW s \in Subjects, NEW role \in Roles, NEW requested \in ScopeRequests,
             Login(s, role, requested)
      PROVE  Base'
  <2>1. GrantedScopes(role, requested) \in SUBSET AllScopes
    BY <1>1 DEF Login, GrantedScopes, DefaultScopes, AllScopes, Roles
  <2>2. IssuePair(s, role, GrantedScopes(role, requested))
    BY <1>1 DEF Login
  <2>3. /\ minted' \subseteq Token /\ minted \subseteq minted' /\ issued' \subseteq minted'
        /\ IsFiniteSet(minted') /\ \A t \in minted' : t.jti < Cardinality(minted')
    BY <2>1, <2>2, IssueKeepsBase
  <2>4. \A c \in Clients : RequestOK(req[c])'
    BY <1>1, <2>3, RequestsStayOK DEF Login
  <2> QED
    BY <1>1, <2>3, <2>4 DEF Login, Granted, Base, TypeOK
<1>2. ASSUME NEW t \in minted, Refresh(t) PROVE Base'
  <2>1. t.sub \in Subjects /\ t.role \in Roles /\ t.scopes \in SUBSET AllScopes /\ t.jti \in Nat
    BY DEF Base, TypeOK, Token
  <2>2. IssuePair(t.sub, t.role, t.scopes)
    BY <1>2 DEF Refresh
  <2>3. /\ minted' \subseteq Token /\ minted \subseteq minted' /\ issued' \subseteq minted'
        /\ IsFiniteSet(minted') /\ \A u \in minted' : u.jti < Cardinality(minted')
    BY <2>1, <2>2, IssueKeepsBase
  <2>4. \A c \in Clients : RequestOK(req[c])'
    BY <1>2, <2>3, RequestsStayOK DEF Refresh
  <2>5. NextJti \in Nat
    BY <2>1, <2>2, IssuePairEffect
  <2> QED
    BY <1>2, <2>1, <2>3, <2>4, <2>5 DEF Refresh, Base, TypeOK
<1>3. ASSUME NEW c \in Clients, NEW t \in minted, NEW op \in Ops, NEW arg \in Args(op),
             Admit(c, t, op, arg)
      PROVE  Base'
  <2>1. /\ op \in {"create_token", "revoke_subject"} => arg \in Subjects
        /\ op = "revoke_jti" => arg \in Nat
    BY DEF Args, Base, TypeOK, Token, Ops, AdminOps
  <2>2. \A d \in Clients : RequestOK(req[d])'
    BY <1>3, <2>1 DEF Admit, Base, TypeOK, RequestOK
  <2> QED
    BY <1>3, <2>2 DEF Admit, Base, TypeOK, store, history
<1>4. ASSUME NEW c \in Clients, Handler(c) PROVE Base'
  <2>1. ASSUME NEW jti \in Nat, NEW op \in Ops, Handles(c, op), RevokeToken(jti) PROVE Base'
    <3>1. \A d \in Clients : RequestOK(req[d])'
      BY <2>1, RequestsStayOK DEF Handles, RevokeToken
    <3>2. consumed' \subseteq Nat
      BY <2>1 DEF RevokeToken, Base, TypeOK, Token
    <3> QED
      BY <2>1, <3>1, <3>2 DEF Handles, RevokeToken, Base, TypeOK, history
  <2>2. CASE Revoke(c)
    <3>1. req[c].tok.jti \in Nat
      BY <2>2 DEF Revoke, Handles, Base, TypeOK, RequestOK, Token
    <3> QED
      BY <2>1, <2>2, <3>1 DEF Revoke, Ops
  <2>3. CASE AdminRevokeToken(c)
    <3>1. req[c].arg \in Nat
      BY <2>3 DEF AdminRevokeToken, Handles, Base, TypeOK, RequestOK
    <3> QED
      BY <2>1, <2>3, <3>1 DEF AdminRevokeToken, Ops, AdminOps
  <2>4. ASSUME NEW role \in Roles, NEW requested \in ScopeRequests,
               AdminCreateToken(c, role, requested)
        PROVE  Base'
    <3>1. GrantedScopes(role, requested) \in SUBSET AllScopes
      BY <2>4 DEF AdminCreateToken, GrantedScopes, DefaultScopes, AllScopes, Roles
    <3>2. req[c].arg \in Subjects
      BY <2>4 DEF AdminCreateToken, Handles, Base, TypeOK, RequestOK
    <3>3. IssuePair(req[c].arg, role, GrantedScopes(role, requested))
      BY <2>4 DEF AdminCreateToken
    <3>4. /\ minted' \subseteq Token /\ minted \subseteq minted' /\ issued' \subseteq minted'
          /\ IsFiniteSet(minted') /\ \A t \in minted' : t.jti < Cardinality(minted')
      BY <3>1, <3>2, <3>3, IssueKeepsBase
    <3>5. \A d \in Clients : RequestOK(req[d])'
      BY <2>4, <3>4, RequestsStayOK DEF AdminCreateToken, Handles
    <3> QED
      BY <2>4, <3>2, <3>4, <3>5 DEF AdminCreateToken, Handles, Granted, Base, TypeOK
  <2>5. ASSUME NEW role \in Roles, NEW requested \in ScopeRequests,
               AdminCreateRejected(c, role, requested)
        PROVE  Base'
    <3>1. \A d \in Clients : RequestOK(req[d])'
      BY <2>5, RequestsStayOK DEF AdminCreateRejected, Handles
    <3> QED
      BY <2>5, <3>1 DEF AdminCreateRejected, Handles, Base, TypeOK, store, history
  <2>6. CASE AdminRevokeSubject(c)
    <3>1. \A d \in Clients : RequestOK(req[d])'
      BY <2>6, RequestsStayOK DEF AdminRevokeSubject, Handles
    <3>2. req[c].arg \in Subjects
      BY <2>6 DEF AdminRevokeSubject, Handles, Base, TypeOK, RequestOK
    <3>3. revoked' \subseteq Nat /\ consumed' \subseteq Nat
      BY <2>6 DEF AdminRevokeSubject, Base, TypeOK, Token
    <3> QED
      BY <2>6, <3>1, <3>2, <3>3 DEF AdminRevokeSubject, Handles, Base, TypeOK
  <2>7. CASE BeginCommand(c)
    <3>1. \A d \in Clients : RequestOK(req[d])'
      BY <2>7 DEF BeginCommand, Base, TypeOK, RequestOK
    <3> QED
      BY <2>7, <3>1 DEF BeginCommand, Base, TypeOK, store, history
  <2>8. CASE EndCommand(c)
    <3>1. \A d \in Clients : RequestOK(req[d])'
      BY <2>8, RequestsStayOK DEF EndCommand
    <3> QED
      BY <2>8, <3>1 DEF EndCommand, Base, TypeOK, store, history
  <2> QED
    BY <1>4, <2>2, <2>3, <2>4, <2>5, <2>6, <2>7, <2>8 DEF Handler
<1>5. CASE Tick
  <2>1. \A d \in Clients : RequestOK(req[d])'
    BY <1>5, RequestsStayOK DEF Tick
  <2> QED
    BY <1>5, <2>1 DEF Tick, Base, TypeOK, store, history
<1>6. CASE Restart
  BY <1>6 DEF Restart, Base, TypeOK, RequestOK, Idle
<1>7. CASE UNCHANGED vars
  <2>1. \A d \in Clients : RequestOK(req[d])'
    BY <1>7, RequestsStayOK DEF vars
  <2> QED
    BY <1>7, <2>1 DEF vars, Base, TypeOK, store, history
<1> QED
  BY <1>1, <1>2, <1>3, <1>4, <1>5, <1>6, <1>7 DEF Next

LEMMA BaseInvariant == Spec => []Base
<1>1. Init => Base
  <2>1. IsFiniteSet({})
    BY FS_EmptySet
  <2> QED
    BY <2>1 DEF Init, Base, TypeOK, RequestOK, Idle
<1> QED
  BY <1>1, BaseInductive, PTL DEF Spec

(* TypeOK: the token store, the requests and the clock keep their types, for *)
(* a configured as well as for a generated secret.                           *)
THEOREM TypeCorrect == Spec => []TypeOK
<1>1. Base => TypeOK
  BY DEF Base
<1> QED
  BY <1>1, BaseInvariant, PTL

-----------------------------------------------------------------------------
(***************************************************************************)
(* The inductive part of safety.  It needs ~PersistentSecret exactly where *)
(* a restart must make every earlier token unusable.                       *)
(***************************************************************************)

\* A step that leaves the secret and the minted tokens alone, forgets no
\* record, and cuts only subjects whose recorded tokens are revoked.
Quiet ==
  /\ boot' = boot /\ minted' = minted /\ issued' = issued /\ rotated' = rotated
  /\ revoked \subseteq revoked' /\ consumed \subseteq consumed'
  /\ \A t \in issued : t.sub \in cut' => t.jti \in revoked' \/ t.sub \in cut

LEMMA QuietKeepsAuthInv ==
  ASSUME AuthInv, Quiet
  PROVE  AuthInv'
<1>1. Secret' = Secret
  BY DEF Quiet, Secret
<1>2. IsFiniteSet(minted') /\ Cardinality(minted') = Cardinality(minted)
  BY DEF Quiet, AuthInv
<1>3. \A t \in minted' : t.jti < Cardinality(minted') /\ t.key <= boot'
  BY <1>2 DEF Quiet, AuthInv
<1>4. ASSUME NEW e \in rotated'
      PROVE  /\ e[1] < Cardinality(minted')
             /\ e[1] \in consumed' \/ \A t \in minted' : t.jti = e[1] => t.key # Secret'
  BY <1>1, <1>2 DEF Quiet, AuthInv
<1>5. \A t \in minted' : t.key = Secret' => t \in issued'
  BY <1>1 DEF Quiet, AuthInv
<1>6. \A t \in issued' : t.sub \in cut' => t.jti \in revoked'
  BY DEF Quiet, AuthInv
<1> QED
  BY <1>2, <1>3, <1>4, <1>5, <1>6 DEF AuthInv

(* Issuing a pair to a subject that is not cut afterwards; `edge` is what a *)
(* rotation records, and its first component has just been consumed.        *)
LEMMA IssueKeepsAuthInv ==
  ASSUME Base, AuthInv, NEW sub \in Subjects, NEW role \in Roles,
         NEW scopes \in SUBSET AllScopes, IssuePair(sub, role, scopes),
         ~PersistentSecret,
         boot' = boot, revoked' = revoked, consumed \subseteq consumed',
         cut' \subseteq cut, sub \notin cut',
         \A e \in rotated' : e \in rotated \/ (e[1] \in consumed' /\ \E t \in minted : e[1] = t.jti)
  PROVE  AuthInv'
<1>1. PICK a \in Token, b \in Token :
        /\ a.jti = NextJti /\ a.key = Secret /\ a.sub = sub
        /\ b.jti = NextJti + 1 /\ b.key = Secret /\ b.sub = sub
        /\ minted' = minted \cup {a, b} /\ issued' = issued \cup {a, b}
  BY IssuePairEffect
<1>2. /\ Cardinality(minted') = NextJti + 2 /\ NextJti \in Nat /\ NextJti = Cardinality(minted)
      /\ IsFiniteSet(minted')
  BY IssuePairEffect DEF NextJti
<1>3. Secret' = Secret /\ Secret = boot /\ boot \in Nat
  BY DEF Secret, Base, TypeOK
<1>4. \A t \in minted' : t.jti < Cardinality(minted')
  BY IssueKeepsBase
<1>5. \A t \in minted' : t.key <= boot'
  BY <1>1, <1>3 DEF AuthInv
<1>6. \A t \in minted : t.jti \in Nat /\ t.jti < NextJti
  BY <1>2 DEF Base, TypeOK, Token
<1>7. ASSUME NEW e \in rotated'
      PROVE  /\ e[1] < Cardinality(minted')
             /\ e[1] \in consumed' \/ \A t \in minted' : t.jti = e[1] => t.key # Secret'
  <2>1. CASE e \in rotated
    <3>1. e[1] \in Nat /\ e[1] < NextJti
      BY <2>1, <1>2 DEF Base, TypeOK, AuthInv
    <3>2. a.jti # e[1] /\ b.jti # e[1]
      BY <3>1, <1>1, <1>2
    <3>3. e[1] < Cardinality(minted')
      BY <3>1, <1>2
    <3>4. e[1] \in consumed \/ \A t \in minted : t.jti = e[1] => t.key # Secret
      BY <2>1 DEF AuthInv
    <3> QED
      BY <3>2, <3>3, <3>4, <1>1, <1>3
  <2>2. CASE e \notin rotated
    <3>1. e[1] \in consumed' /\ \E t \in minted : e[1] = t.jti
      BY <2>2, <1>7
    <3>2. e[1] < Cardinality(minted')
      BY <3>1, <1>2, <1>6
    <3> QED
      BY <3>1, <3>2
  <2> QED
    BY <2>1, <2>2
<1>8. \A t \in minted' : t.key = Secret' => t \in issued'
  BY <1>1, <1>3 DEF AuthInv
<1>9. \A t \in issued' : t.sub \in cut' => t.jti \in revoked'
  BY <1>1 DEF AuthInv
<1> QED
  BY <1>2, <1>4, <1>5, <1>7, <1>8, <1>9 DEF AuthInv

(* A refresh token that is accepted belongs to a subject that is not cut: it *)
(* is on record, and the record of a cut subject is revoked.                 *)
LEMMA AcceptedIsNotCut ==
  ASSUME AuthInv, NEW t \in minted, DecodeToken(t)
  PROVE  t \in issued /\ t.sub \notin cut
  BY DEF AuthInv, DecodeToken

LEMMA AuthInvInductive ==
  ASSUME ~PersistentSecret
  PROVE  Base /\ AuthInv /\ [Next]_vars => AuthInv'
<1> SUFFICES ASSUME Base, AuthInv, [Next]_vars PROVE AuthInv'
  OBVIOUS
<1>1. ASSUME NEW s \in Subjects, NEW role \in Roles, NEW requested \in ScopeRequests,
             Login(s, role, requested)
      PROVE  AuthInv'
  <2>1. GrantedScopes(role, requested) \in SUBSET AllScopes
    BY <1>1 DEF Login, GrantedScopes, DefaultScopes, AllScopes, Roles
  <2> QED
    BY <1>1, <2>1, IssueKeepsAuthInv DEF Login, Granted
<1>2. ASSUME NEW t \in minted, Refresh(t) PROVE AuthInv'
  <2>1. t.sub \in Subjects /\ t.role \in Roles /\ t.scopes \in SUBSET AllScopes
    BY DEF Base, TypeOK, Token
  <2>2. t.sub \notin cut
    BY <1>2, AcceptedIsNotCut DEF Refresh
  <2>3. \A e \in rotated' : e \in rotated \/ (e[1] \in consumed' /\ \E u \in minted : e[1] = u.jti)
    BY <1>2 DEF Refresh
  <2> QED
    BY <1>2, <2>1, <2>2, <2>3, IssueKeepsAuthInv DEF Refresh
<1>3. ASSUME NEW c \in Clients, NEW t \in minted, NEW op \in Ops, NEW arg \in Args(op),
             Admit(c, t, op, arg)
      PROVE  AuthInv'
  BY <1>3, QuietKeepsAuthInv DEF Quiet, Admit, store, history
<1>4. ASSUME NEW c \in Clients, Handler(c) PROVE AuthInv'
  <2>1. ASSUME NEW jti, RevokeToken(jti) PROVE AuthInv'
    BY <2>1, QuietKeepsAuthInv DEF Quiet, RevokeToken, history
  <2>2. CASE Revoke(c) \/ AdminRevokeToken(c)
    BY <2>1, <2>2 DEF Revoke, AdminRevokeToken
  <2>3. ASSUME NEW role \in Roles, NEW requested \in ScopeRequests,
               AdminCreateToken(c, role, requested)
        PROVE  AuthInv'
    <3>1. GrantedScopes(role, requested) \in SUBSET AllScopes
      BY <2>3 DEF AdminCreateToken, GrantedScopes, DefaultScopes, AllScopes, Roles
    <3>2. req[c].arg \in Subjects
      BY <2>3 DEF AdminCreateToken, Handles, Base, TypeOK, RequestOK
    <3> QED
      BY <2>3, <3>1, <3>2, IssueKeepsAuthInv DEF AdminCreateToken, Granted
  <2>4. ASSUME NEW role \in Roles, NEW requested \in ScopeRequests,
               AdminCreateRejected(c, role, requested)
        PROVE  AuthInv'
    BY <2>4, QuietKeepsAuthInv DEF Quiet, AdminCreateRejected, store, history
  <2>5. CASE AdminRevokeSubject(c)
    BY <2>5, QuietKeepsAuthInv DEF Quiet, AdminRevokeSubject
  <2>6. CASE BeginCommand(c) \/ EndCommand(c)
    BY <2>6, QuietKeepsAuthInv DEF Quiet, BeginCommand, EndCommand, store, history
  <2> QED
    BY <1>4, <2>2, <2>3, <2>4, <2>5, <2>6 DEF Handler
<1>5. CASE Tick
  BY <1>5, QuietKeepsAuthInv DEF Quiet, Tick, store, history
<1>6. CASE Restart
  <2>1. Secret' = boot + 1 /\ boot' = boot + 1 /\ boot \in Nat
    BY <1>6 DEF Restart, Secret, Base, TypeOK
  <2>2. \A t \in minted : t.key \in Nat /\ t.key <= boot
    BY DEF AuthInv, Base, TypeOK, Token
  <2>3. \A t \in minted : t.key # Secret' /\ t.key <= boot'
    BY <2>1, <2>2
  <2> QED
    BY <1>6, <2>3 DEF Restart, AuthInv
<1>7. CASE UNCHANGED vars
  BY <1>7, QuietKeepsAuthInv DEF Quiet, vars, store, history
<1> QED
  BY <1>1, <1>2, <1>3, <1>4, <1>5, <1>6, <1>7 DEF Next

(* AuthInv is an invariant when the secret is generated by the process. *)
THEOREM AuthInvariant ==
  ASSUME ~PersistentSecret
  PROVE  Spec => []AuthInv
<1>1. Init => AuthInv
  <2>1. IsFiniteSet({})
    BY FS_EmptySet
  <2> QED
    BY <2>1 DEF Init, AuthInv
<1>2. Base /\ AuthInv /\ [Next]_vars => AuthInv'
  BY AuthInvInductive
<1> QED
  BY <1>1, <1>2, BaseInvariant, PTL DEF Spec

(***************************************************************************)
(* No refresh token buys two pairs.  The state invariant above says that a *)
(* redeemed JTI is consumed or unusable, so a second redemption is never   *)
(* enabled.                                                                *)
(***************************************************************************)
THEOREM RefreshIsSingleUse ==
  ASSUME ~PersistentSecret
  PROVE  Spec => []SingleUse
<1>1. Init => SingleUse
  BY DEF Init, SingleUse
<1>2. AuthInv /\ SingleUse /\ [Next]_vars => SingleUse'
  <2> SUFFICES ASSUME AuthInv, SingleUse, [Next]_vars PROVE SingleUse'
    OBVIOUS
  <2>1. CASE UNCHANGED rotated
    BY <2>1 DEF SingleUse
  <2>2. ASSUME NEW t \in minted, Refresh(t) PROVE SingleUse'
    <3>1. \A e \in rotated : e[1] # t.jti
      BY <2>2 DEF Refresh, DecodeToken, AuthInv
    <3> QED
      BY <2>2, <3>1 DEF Refresh, SingleUse
  <2>3. \/ UNCHANGED rotated
        \/ \E t \in minted : Refresh(t)
    BY DEF Next, Login, Granted, Admit, Handler, Revoke, AdminRevokeToken, RevokeToken,
           AdminCreateToken, AdminCreateRejected, AdminRevokeSubject, BeginCommand,
           EndCommand, Tick, Restart, vars, history
  <2> QED
    BY <2>1, <2>2, <2>3
<1> QED
  BY <1>1, <1>2, AuthInvariant, PTL DEF Spec

(* No token of a revoked subject is accepted until the subject is granted a *)
(* new pair.                                                                *)
THEOREM RevokedSubjectStaysRevoked ==
  ASSUME ~PersistentSecret
  PROVE  Spec => []SubjectStaysRevoked
<1>1. AuthInv => SubjectStaysRevoked
  BY DEF AuthInv, SubjectStaysRevoked, DecodeToken
<1> QED
  BY <1>1, AuthInvariant, PTL

(* A restart makes every earlier token unusable. *)
THEOREM RestartInvalidatesTokens ==
  ASSUME ~PersistentSecret
  PROVE  Spec => []OnlyThisProcessTokens
<1>1. AuthInv => OnlyThisProcessTokens
  BY DEF AuthInv, OnlyThisProcessTokens, DecodeToken
<1> QED
  BY <1>1, AuthInvariant, PTL

-----------------------------------------------------------------------------
(***************************************************************************)
(* Authorization outlives admission: between the dependencies of an        *)
(* endpoint and its handler other requests run, and the process may end.   *)
(***************************************************************************)

\* A request for a command has a token with the scope of that command, and only such
\* requests run.
GateOK(r) ==
  /\ r.st = "running" => r.op = "command"
  /\ r.st # "idle" /\ r.op = "command" => RequireScope(r.tok, CommandScope(r.arg))

GateInv == \A c \in Clients : GateOK(req[c])

LEMMA IdleIsOK == GateOK(Idle)
BY DEF GateOK, Idle

\* Requests change one at a time: one is admitted, begins its command, or is answered.
LEMMA RequestMoves ==
  ASSUME Base, GateInv, Next, NEW c \in Clients
  PROVE  GateOK(req'[c])
<1>0. GateOK(req[c]) /\ req = [d \in Clients |-> req[d]]
  BY DEF GateInv, Base
<1>1. CASE UNCHANGED req
  BY <1>0, <1>1
<1>2. CASE \E d \in Clients : req' = [req EXCEPT ![d] = Idle]
  BY <1>0, <1>2, IdleIsOK
<1>3. CASE \E d \in Clients, t \in minted, op \in Ops : \E arg \in Args(op) : Admit(d, t, op, arg)
  <2>1. PICK d \in Clients, t \in minted, op \in Ops : \E arg \in Args(op) : Admit(d, t, op, arg)
    BY <1>3
  <2>2. PICK arg \in Args(op) : Admit(d, t, op, arg)
    BY <2>1
  <2>3. PICK r : r = [st |-> "admitted", op |-> op, tok |-> t, arg |-> arg]
    OBVIOUS
  <2>4. GateOK(r)
    BY <2>2, <2>3 DEF GateOK, Admit, Authorized
  <2>5. req' = [req EXCEPT ![d] = r]
    BY <2>2, <2>3 DEF Admit
  <2> QED BY <1>0, <2>4, <2>5
<1>4. CASE \E d \in Clients : BeginCommand(d)
  <2>1. PICK d \in Clients : BeginCommand(d)
    BY <1>4
  <2>2. PICK r : r = [req[d] EXCEPT !.st = "running"]
    OBVIOUS
  <2>3. GateOK(req[d]) /\ req[d].st # "idle" /\ req[d].op = "command"
    BY <2>1 DEF GateInv, BeginCommand
  <2>4. r.op = req[d].op /\ r.tok = req[d].tok /\ r.arg = req[d].arg
    BY <2>2
  <2>5. GateOK(r)
    BY <2>3, <2>4 DEF GateOK
  <2>6. req' = [req EXCEPT ![d] = r]
    BY <2>1, <2>2 DEF BeginCommand
  <2> QED BY <1>0, <2>5, <2>6
<1>5. CASE Restart
  BY <1>5, IdleIsOK DEF Restart
<1>6. \/ UNCHANGED req \/ Restart
      \/ \E d \in Clients : req' = [req EXCEPT ![d] = Idle]
      \/ \E d \in Clients, t \in minted, op \in Ops : \E arg \in Args(op) : Admit(d, t, op, arg)
      \/ \E d \in Clients : BeginCommand(d)
  BY DEF Next, Login, Refresh, Handler, Revoke, AdminRevokeToken, AdminCreateToken, AdminCreateRejected,
         AdminRevokeSubject, Handles, EndCommand, Tick
<1> QED BY <1>1, <1>2, <1>3, <1>4, <1>5, <1>6

(* A command runs only for a token whose grant had the scope that the       *)
(* command asks for, the wildcard of its family or admin:*, whatever is     *)
(* handled between the admission and the command (require_scope, _run_adp). *)
THEOREM CommandsAuthorized == Spec => []CommandsAreAuthorized
<1>1. Init => GateInv
  BY IdleIsOK DEF Init, GateInv
<1>2. Base /\ GateInv /\ [Next]_vars => GateInv'
  <2> SUFFICES ASSUME Base, GateInv, [Next]_vars PROVE GateInv'
    OBVIOUS
  <2>1. CASE UNCHANGED vars
    BY <2>1 DEF vars, GateInv
  <2>2. CASE Next
    BY <2>2, RequestMoves DEF GateInv
  <2> QED BY <2>1, <2>2
<1>3. GateInv => CommandsAreAuthorized
  <2> SUFFICES ASSUME GateInv, NEW c \in Clients, req[c].st = "running",
                      NEW asked, asked = CommandScope(req[c].arg)
               PROVE  \E scope \in req[c].tok.scopes :
                        scope = AdminScope \/ (scope[1] = asked[1] /\ scope[2] \in {asked[2], "*"})
    BY DEF CommandsAreAuthorized
  <2>1. RequireScope(req[c].tok, asked)
    BY DEF GateInv, GateOK
  <2>2. \/ AdminScope \in req[c].tok.scopes
        \/ asked \in req[c].tok.scopes
        \/ <<asked[1], "*">> \in req[c].tok.scopes
    BY <2>1 DEF RequireScope
  <2> QED BY <2>2
<1> QED
  BY <1>1, <1>2, <1>3, BaseInvariant, PTL DEF Spec

-----------------------------------------------------------------------------
(* RefreshConservation: the count of a subject's usable refresh tokens.      *)

Usable(s) == {t \in minted : t.sub = s /\ t.tt = "refresh" /\ DecodeToken(t)}

CountInv == \A s \in Subjects : Cardinality(Usable(s)) <= grants[s]

LEMMA UsableIsFinite ==
  ASSUME Base, NEW s
  PROVE  IsFiniteSet(Usable(s)) /\ Cardinality(Usable(s)) \in Nat
<1>1. Usable(s) \in SUBSET minted
  BY DEF Usable
<1> QED BY <1>1, FS_Subset, FS_CardinalityType DEF Base

LEMMA AtMostOneMore ==
  ASSUME NEW S, IsFiniteSet(S), NEW b
  PROVE  /\ IsFiniteSet(S \cup {b})
         /\ Cardinality(S \cup {b}) \in Nat /\ Cardinality(S \cup {b}) <= Cardinality(S) + 1
<1>1. Cardinality(S) \in Nat
  BY FS_CardinalityType
<1>2. IsFiniteSet(S \cup {b})
  BY FS_AddElement
<1>3. Cardinality(S \cup {b}) \in {Cardinality(S), Cardinality(S) + 1}
  <2>1. CASE b \in S
    BY <2>1, FS_AddElement
  <2>2. CASE b \notin S
    BY <2>2, FS_AddElement
  <2> QED BY <2>1, <2>2
<1> QED BY <1>1, <1>2, <1>3

\* Time passes, and what is revoked or consumed stays so while the process lives.
Ages ==
  /\ minted' = minted /\ boot' = boot /\ now' \in {now, now + 1}
  /\ revoked \subseteq revoked' /\ consumed \subseteq consumed'

LEMMA FewerUsable ==
  ASSUME Base, Ages, NEW s
  PROVE  Usable(s)' \subseteq Usable(s)
<1>1. \A t \in minted : DecodeToken(t)' => DecodeToken(t)
  BY DEF Ages, DecodeToken, Secret, Base, TypeOK, Token
<1> QED BY <1>1 DEF Ages, Usable

LEMMA AgingKeepsCount ==
  ASSUME Base, CountInv, grants' = grants, \A s \in Subjects : Usable(s)' \subseteq Usable(s)
  PROVE  CountInv'
<1> SUFFICES ASSUME NEW s \in Subjects PROVE Cardinality(Usable(s)') <= grants[s]
  BY DEF CountInv, Usable
<1>1. Cardinality(Usable(s)') <= Cardinality(Usable(s))
  BY UsableIsFinite, FS_Subset
<1>2. Cardinality(Usable(s)') \in Nat
  BY UsableIsFinite, FS_Subset, FS_CardinalityType
<1> QED BY <1>1, <1>2, UsableIsFinite DEF CountInv, Base, TypeOK

\* A pair brings one refresh token, and nothing that was unusable comes back.
LEMMA IssueAddsOne ==
  ASSUME Base, NEW sub \in Subjects, NEW role \in Roles, NEW scopes \in SUBSET AllScopes,
         IssuePair(sub, role, scopes),
         boot' = boot, now' = now, revoked' = revoked, consumed \subseteq consumed'
  PROVE  \E b : /\ \A s \in Subjects \ {sub} : Usable(s)' \subseteq Usable(s)
               /\ Usable(sub)' \subseteq Usable(sub) \cup {b}
               /\ \A t \in Usable(sub)' : t = b \/ t.jti \notin consumed'
<1> DEFINE a == CreateAccessToken(NextJti, sub, role, scopes)
           b == CreateRefreshToken(NextJti + 1, sub, role, scopes)
<1>1. a.tt = "access" /\ b.sub = sub /\ minted' = minted \cup {a, b}
  BY DEF CreateAccessToken, CreateRefreshToken, CreateToken, IssuePair
<1> HIDE DEF a, b
<1>2. \A t \in minted : DecodeToken(t)' => DecodeToken(t)
  BY DEF DecodeToken, Secret
<1>3. \A s \in Subjects \ {sub} : Usable(s)' \subseteq Usable(s)
  BY <1>1, <1>2 DEF Usable
<1>4. Usable(sub)' \subseteq Usable(sub) \cup {b}
  BY <1>1, <1>2 DEF Usable
<1>5. \A t \in Usable(sub)' : t.jti \notin consumed'
  BY DEF Usable, DecodeToken
<1> QED BY <1>3, <1>4, <1>5

\* A grant counts one more, and brings one more.
LEMMA GrantKeepsCount ==
  ASSUME Base, CountInv, NEW sub \in Subjects, NEW role \in Roles, NEW scopes \in SUBSET AllScopes,
         IssuePair(sub, role, scopes), Granted(sub),
         boot' = boot, now' = now, revoked' = revoked, consumed \subseteq consumed'
  PROVE  CountInv'
<1>1. PICK b : /\ \A s \in Subjects \ {sub} : Usable(s)' \subseteq Usable(s)
               /\ Usable(sub)' \subseteq Usable(sub) \cup {b}
  BY IssueAddsOne
<1> SUFFICES ASSUME NEW s \in Subjects PROVE Cardinality(Usable(s)') <= grants'[s]
  BY DEF CountInv, Usable
<1>2. Cardinality(Usable(s)) \in Nat /\ Cardinality(Usable(s)) <= grants[s] /\ grants[s] \in Nat
  BY UsableIsFinite DEF CountInv, Base, TypeOK
<1>3. CASE s = sub
  <2>1. IsFiniteSet(Usable(s) \cup {b}) /\ Cardinality(Usable(s) \cup {b}) <= Cardinality(Usable(s)) + 1
    BY UsableIsFinite, AtMostOneMore
  <2>2. Cardinality(Usable(s)') <= Cardinality(Usable(s) \cup {b}) /\ Cardinality(Usable(s)') \in Nat
    BY <1>1, <1>3, <2>1, FS_Subset, FS_CardinalityType
  <2>3. Cardinality(Usable(s) \cup {b}) \in Nat
    BY <2>1, FS_CardinalityType
  <2>4. grants'[s] = grants[s] + 1
    BY <1>3 DEF Granted, Base, TypeOK
  <2> QED BY <1>2, <2>1, <2>2, <2>3, <2>4
<1>4. CASE s # sub
  <2>1. Cardinality(Usable(s)') <= Cardinality(Usable(s)) /\ Cardinality(Usable(s)') \in Nat
    BY <1>1, <1>4, UsableIsFinite, FS_Subset, FS_CardinalityType
  <2>2. grants'[s] = grants[s]
    BY <1>4 DEF Granted, Base, TypeOK
  <2> QED BY <1>2, <2>1, <2>2
<1> QED BY <1>3, <1>4

\* A rotation brings one refresh token and takes one: the redeemed one was usable.
LEMMA RefreshKeepsCount ==
  ASSUME Base, CountInv, NEW t \in minted, Refresh(t)
  PROVE  CountInv'
<1> DEFINE sub == t.sub
<1>0. sub \in Subjects /\ t.role \in Roles /\ t.scopes \in SUBSET AllScopes
  BY DEF Base, TypeOK, Token
<1>1. PICK b : /\ \A s \in Subjects \ {sub} : Usable(s)' \subseteq Usable(s)
               /\ Usable(sub)' \subseteq Usable(sub) \cup {b}
               /\ \A u \in Usable(sub)' : u = b \/ u.jti \notin consumed'
  BY <1>0, IssueAddsOne DEF Refresh
<1>2. t \in Usable(sub) /\ t.jti \in consumed' /\ grants' = grants
  BY DEF Refresh, Usable
<1>3. Usable(sub)' \subseteq (Usable(sub) \ {t}) \cup {b}
  BY <1>1, <1>2
<1> SUFFICES ASSUME NEW s \in Subjects PROVE Cardinality(Usable(s)') <= grants[s]
  BY <1>2 DEF CountInv, Usable
<1> HIDE DEF sub
<1>4. Cardinality(Usable(s)) \in Nat /\ Cardinality(Usable(s)) <= grants[s] /\ grants[s] \in Nat
  BY UsableIsFinite DEF CountInv, Base, TypeOK
<1>5. CASE s = sub
  <2>1. PICK S : S = Usable(s) \ {t}
    OBVIOUS
  <2>2. IsFiniteSet(S) /\ Cardinality(S) = Cardinality(Usable(s)) - 1
    BY <1>2, <1>5, <2>1, UsableIsFinite, FS_RemoveElement
  <2>3. /\ IsFiniteSet(S \cup {b}) /\ Cardinality(S \cup {b}) \in Nat
        /\ Cardinality(S \cup {b}) <= Cardinality(S) + 1
    BY <2>2, AtMostOneMore
  <2>4. Cardinality(Usable(s)') <= Cardinality(S \cup {b}) /\ Cardinality(Usable(s)') \in Nat
    BY <1>3, <1>5, <2>1, <2>3, FS_Subset, FS_CardinalityType
  <2> QED BY <1>4, <2>2, <2>3, <2>4
<1>6. CASE s # sub
  <2>1. Cardinality(Usable(s)') <= Cardinality(Usable(s)) /\ Cardinality(Usable(s)') \in Nat
    BY <1>1, <1>6, UsableIsFinite, FS_Subset, FS_CardinalityType
  <2> QED BY <1>4, <2>1
<1> QED BY <1>5, <1>6

LEMMA CountInductive ==
  ASSUME ~PersistentSecret
  PROVE  Base /\ AuthInv /\ CountInv /\ [Next]_vars => CountInv'
<1> SUFFICES ASSUME Base, AuthInv, CountInv, [Next]_vars PROVE CountInv'
  OBVIOUS
<1>0. ASSUME Ages, grants' = grants PROVE CountInv'
  BY <1>0, FewerUsable, AgingKeepsCount
<1>1. ASSUME NEW s \in Subjects, NEW role \in Roles, NEW requested \in ScopeRequests,
             Login(s, role, requested)
      PROVE  CountInv'
  <2>1. GrantedScopes(role, requested) \in SUBSET AllScopes
    BY <1>1 DEF Login, GrantedScopes, DefaultScopes, AllScopes, Roles
  <2> QED BY <1>1, <2>1, GrantKeepsCount DEF Login
<1>2. ASSUME NEW t \in minted, Refresh(t) PROVE CountInv'
  BY <1>2, RefreshKeepsCount
<1>3. ASSUME NEW c \in Clients, NEW t \in minted, NEW op \in Ops, NEW arg \in Args(op),
             Admit(c, t, op, arg)
      PROVE  CountInv'
  BY <1>0, <1>3 DEF Admit, store, history, Ages
<1>4. ASSUME NEW c \in Clients, Handler(c) PROVE CountInv'
  <2>1. CASE Revoke(c) \/ AdminRevokeToken(c)
    BY <1>0, <2>1 DEF Revoke, AdminRevokeToken, RevokeToken, history, Ages
  <2>2. ASSUME NEW role \in Roles, NEW requested \in ScopeRequests,
               AdminCreateToken(c, role, requested)
        PROVE  CountInv'
    <3>1. GrantedScopes(role, requested) \in SUBSET AllScopes
      BY <2>2 DEF AdminCreateToken, GrantedScopes, DefaultScopes, AllScopes, Roles
    <3>2. req[c].arg \in Subjects
      BY <2>2 DEF AdminCreateToken, Handles, Base, TypeOK, RequestOK
    <3> QED BY <2>2, <3>1, <3>2, GrantKeepsCount DEF AdminCreateToken
  <2>3. ASSUME NEW role \in Roles, NEW requested \in ScopeRequests,
               AdminCreateRejected(c, role, requested)
        PROVE  CountInv'
    BY <1>0, <2>3 DEF AdminCreateRejected, store, history, Ages
  <2>4. CASE AdminRevokeSubject(c)
    BY <1>0, <2>4 DEF AdminRevokeSubject, Ages
  <2>5. CASE BeginCommand(c) \/ EndCommand(c)
    BY <1>0, <2>5 DEF BeginCommand, EndCommand, store, history, Ages
  <2> QED BY <1>4, <2>1, <2>2, <2>3, <2>4, <2>5 DEF Handler
<1>5. CASE Tick
  BY <1>0, <1>5 DEF Tick, store, history, Ages
<1>6. CASE Restart
  <2>1. \A t \in minted : t.key # Secret'
    BY <1>6 DEF Restart, Secret, AuthInv, Base, TypeOK, Token
  <2>2. \A s \in Subjects : Usable(s)' = {}
    BY <1>6, <2>1 DEF Restart, Usable, DecodeToken
  <2> QED BY <1>6, <2>2, AgingKeepsCount DEF Restart
<1>7. CASE UNCHANGED vars
  BY <1>0, <1>7 DEF vars, store, history, Ages
<1> QED BY <1>1, <1>2, <1>3, <1>4, <1>5, <1>6, <1>7 DEF Next

(* Rotation never multiplies refresh tokens: the handler of /v1/auth/refresh *)
(* consumes one for the one it issues, whatever comes between two rotations. *)
THEOREM RefreshTokensAreConserved ==
  ASSUME ~PersistentSecret
  PROVE  Spec => []RefreshConservation
<1>1. Init => CountInv
  <2>1. ASSUME Init, NEW s \in Subjects PROVE Cardinality(Usable(s)) <= grants[s]
    <3>1. Usable(s) = {} /\ grants[s] = 0
      BY <2>1 DEF Init, Usable
    <3> QED BY <3>1, FS_EmptySet
  <2> QED BY <2>1 DEF CountInv
<1>2. CountInv => RefreshConservation
  BY DEF CountInv, Usable, RefreshConservation
<1>3. Base /\ AuthInv /\ CountInv /\ [Next]_vars => CountInv'
  BY CountInductive
<1> QED BY <1>1, <1>2, <1>3, BaseInvariant, AuthInvariant, PTL DEF Spec

-----------------------------------------------------------------------------
(***************************************************************************)
(* Lapsed tokens and tickets.  Nothing here asks for a generated secret    *)
(* but the steps that restart the process.                                 *)
(***************************************************************************)

\* A request to revoke a JTI names one that a token has.
KnownArg(r) == r.st # "idle" /\ r.op = "revoke_jti" => r.arg < Cardinality(minted)

\* A JTI belongs to one token, and the records name no JTI that is still to be made.
FreshInv ==
  /\ \A t, u \in minted : t.jti = u.jti => t = u
  /\ \A j \in revoked \cup consumed : j < Cardinality(minted)
  /\ \A c \in Clients : KnownArg(req[c])

\* Tokens are only added to those in circulation, the records name known JTIs, and a
\* request stays what it was or is answered.
RecordsKnown ==
  /\ \A j \in (revoked' \cup consumed') \ (revoked \cup consumed) : \E t \in minted : j = t.jti
  /\ \/ req' = req
     \/ \E d \in Clients : req' = [req EXCEPT ![d] = Idle]

LEMMA IssueKeepsFresh ==
  ASSUME Base, FreshInv, RecordsKnown,
         NEW sub \in Subjects, NEW role \in Roles, NEW scopes \in SUBSET AllScopes,
         IssuePair(sub, role, scopes)
  PROVE  FreshInv'
<1>1. PICK a \in Token, b \in Token :
        /\ a.jti = NextJti /\ b.jti = NextJti + 1
        /\ minted' = minted \cup {a, b}
  BY IssuePairEffect
<1>2. Cardinality(minted') = NextJti + 2 /\ NextJti \in Nat /\ NextJti = Cardinality(minted)
  BY IssuePairEffect DEF NextJti
<1>3. \A t \in minted : t.jti \in Nat /\ t.jti < NextJti
  BY <1>2 DEF Base, TypeOK, Token
<1>4. \A t, u \in minted' : t.jti = u.jti => t = u
  BY <1>1, <1>2, <1>3 DEF FreshInv
<1>5. ASSUME NEW j \in revoked' \cup consumed' PROVE j < Cardinality(minted')
  <2>1. CASE j \in revoked \cup consumed
    BY <1>2, <2>1 DEF FreshInv, Base, TypeOK
  <2>2. CASE \E t \in minted : j = t.jti
    BY <1>2, <1>3, <2>2
  <2> QED BY <2>1, <2>2 DEF RecordsKnown
<1>6. ASSUME NEW c \in Clients PROVE KnownArg(req[c])'
  <2>1. RequestOK(req[c]) /\ KnownArg(req[c]) /\ req = [d \in Clients |-> req[d]]
    BY DEF Base, TypeOK, FreshInv
  <2>2. req'[c] = req[c] \/ req'[c] = Idle
    BY <2>1 DEF RecordsKnown
  <2>3. req'[c].st # "idle" /\ req'[c].op = "revoke_jti" => req'[c].arg \in Nat /\ req'[c].arg < NextJti
    BY <1>2, <2>1, <2>2 DEF RequestOK, KnownArg, Idle
  <2> QED BY <1>2, <2>3 DEF KnownArg
<1> QED BY <1>4, <1>5, <1>6 DEF FreshInv

LEMMA QuietKeepsFresh ==
  ASSUME Base, FreshInv, RecordsKnown, minted' = minted
  PROVE  FreshInv'
<1>1. \A j \in revoked' \cup consumed' : j < Cardinality(minted')
  BY DEF Base, FreshInv, RecordsKnown
<1>2. ASSUME NEW c \in Clients PROVE KnownArg(req[c])'
  <2>1. KnownArg(req[c]) /\ req = [d \in Clients |-> req[d]]
    BY DEF Base, FreshInv
  <2>2. req'[c] = req[c] \/ req'[c] = Idle
    BY <2>1 DEF RecordsKnown
  <2> QED BY <2>1, <2>2 DEF KnownArg, Idle
<1> QED BY <1>1, <1>2 DEF FreshInv

\* What revoke_token adds to the records is the JTI it is given.
LEMMA RevokeTokenKnown ==
  ASSUME NEW c \in Clients, NEW op \in Ops, Handles(c, op), NEW t \in minted, RevokeToken(t.jti)
  PROVE  RecordsKnown
BY DEF Handles, RevokeToken, RecordsKnown

LEMMA FreshInductive == Base /\ FreshInv /\ [Next]_vars => FreshInv'
<1> SUFFICES ASSUME Base, FreshInv, [Next]_vars PROVE FreshInv'
  OBVIOUS
<1>1. ASSUME NEW s \in Subjects, NEW role \in Roles, NEW requested \in ScopeRequests,
             Login(s, role, requested)
      PROVE  FreshInv'
  <2>1. GrantedScopes(role, requested) \in SUBSET AllScopes
    BY <1>1 DEF Login, GrantedScopes, DefaultScopes, AllScopes, Roles
  <2>2. RecordsKnown
    BY <1>1 DEF Login, RecordsKnown
  <2> QED BY <1>1, <2>1, <2>2, IssueKeepsFresh DEF Login
<1>2. ASSUME NEW t \in minted, Refresh(t) PROVE FreshInv'
  <2>1. t.sub \in Subjects /\ t.role \in Roles /\ t.scopes \in SUBSET AllScopes
    BY DEF Base, TypeOK, Token
  <2>2. RecordsKnown
    BY <1>2 DEF Refresh, RecordsKnown
  <2> QED BY <1>2, <2>1, <2>2, IssueKeepsFresh DEF Refresh
<1>3. ASSUME NEW c \in Clients, NEW t \in minted, NEW op \in Ops, NEW arg \in Args(op),
             Admit(c, t, op, arg)
      PROVE  FreshInv'
  <2>1. op = "revoke_jti" => arg < Cardinality(minted)
    BY DEF Args, Base
  <2>2. PICK r : r = [st |-> "admitted", op |-> op, tok |-> t, arg |-> arg]
    OBVIOUS
  <2>3. KnownArg(r) /\ req' = [req EXCEPT ![c] = r] /\ minted' = minted
    BY <1>3, <2>1, <2>2 DEF Admit, KnownArg
  <2>4. ASSUME NEW d \in Clients PROVE KnownArg(req[d])'
    <3>1. req'[d] = r \/ req'[d] = req[d]
      BY <2>3 DEF Base
    <3>2. KnownArg(req[d])
      BY DEF FreshInv
    <3> QED BY <2>3, <3>1, <3>2 DEF KnownArg
  <2> QED BY <1>3, <2>3, <2>4 DEF Admit, store, FreshInv
<1>4. ASSUME NEW c \in Clients, Handler(c) PROVE FreshInv'
  <2>1. CASE Revoke(c)
    <3>1. req[c].tok \in minted
      BY <2>1 DEF Revoke, Handles, Base, TypeOK, RequestOK
    <3> QED BY <2>1, <3>1, RevokeTokenKnown, QuietKeepsFresh DEF Revoke, RevokeToken, Ops
  <2>2. CASE AdminRevokeToken(c)
    <3>1. req[c].arg < Cardinality(minted)
      BY <2>2 DEF AdminRevokeToken, Handles, FreshInv, KnownArg
    <3>2. \A j \in revoked' \cup consumed' : j = req[c].arg \/ j \in revoked \cup consumed
      BY <2>2 DEF AdminRevokeToken, RevokeToken
    <3>3. \A j \in revoked' \cup consumed' : j < Cardinality(minted')
      BY <2>2, <3>1, <3>2 DEF AdminRevokeToken, RevokeToken, FreshInv
    <3>4. ASSUME NEW d \in Clients PROVE KnownArg(req[d])'
      <4>1. KnownArg(req[d]) /\ (req'[d] = req[d] \/ req'[d] = Idle)
        BY <2>2 DEF AdminRevokeToken, Handles, FreshInv, Base
      <4> QED BY <2>2, <4>1 DEF AdminRevokeToken, RevokeToken, KnownArg, Idle
    <3> QED BY <2>2, <3>3, <3>4 DEF AdminRevokeToken, RevokeToken, FreshInv
  <2>3. ASSUME NEW role \in Roles, NEW requested \in ScopeRequests,
               AdminCreateToken(c, role, requested)
        PROVE  FreshInv'
    <3>1. GrantedScopes(role, requested) \in SUBSET AllScopes
      BY <2>3 DEF AdminCreateToken, GrantedScopes, DefaultScopes, AllScopes, Roles
    <3>2. req[c].arg \in Subjects
      BY <2>3 DEF AdminCreateToken, Handles, Base, TypeOK, RequestOK
    <3>3. RecordsKnown
      BY <2>3 DEF AdminCreateToken, Handles, RecordsKnown
    <3> QED BY <2>3, <3>1, <3>2, <3>3, IssueKeepsFresh DEF AdminCreateToken
  <2>4. ASSUME NEW role \in Roles, NEW requested \in ScopeRequests,
               AdminCreateRejected(c, role, requested)
        PROVE  FreshInv'
    BY <2>4, QuietKeepsFresh DEF AdminCreateRejected, Handles, store, RecordsKnown
  <2>5. CASE AdminRevokeSubject(c)
    <3>1. RecordsKnown
      BY <2>5 DEF AdminRevokeSubject, Handles, RecordsKnown, Base, TypeOK
    <3> QED BY <2>5, <3>1, QuietKeepsFresh DEF AdminRevokeSubject
  <2>6. CASE BeginCommand(c)
    <3>1. ASSUME NEW d \in Clients PROVE KnownArg(req[d])'
      <4>1. KnownArg(req[d]) /\ req'[d] = IF d = c THEN [req[c] EXCEPT !.st = "running"] ELSE req[d]
        BY <2>6 DEF BeginCommand, FreshInv, Base
      <4> QED BY <2>6, <4>1 DEF BeginCommand, KnownArg
    <3> QED BY <2>6, <3>1 DEF BeginCommand, store, FreshInv
  <2>7. CASE EndCommand(c)
    BY <2>7, QuietKeepsFresh DEF EndCommand, store, RecordsKnown
  <2> QED BY <1>4, <2>1, <2>2, <2>3, <2>4, <2>5, <2>6, <2>7 DEF Handler
<1>5. CASE Tick
  BY <1>5, QuietKeepsFresh DEF Tick, store, RecordsKnown
<1>6. CASE Restart
  BY <1>6 DEF Restart, FreshInv, KnownArg, Idle
<1>7. CASE UNCHANGED vars
  BY <1>7, QuietKeepsFresh DEF vars, store, RecordsKnown
<1> QED BY <1>1, <1>2, <1>3, <1>4, <1>5, <1>6, <1>7 DEF Next

LEMMA FreshInvariant == Spec => []FreshInv
<1>1. Init => FreshInv
  BY DEF Init, FreshInv, KnownArg, Idle
<1> QED BY <1>1, FreshInductive, BaseInvariant, PTL DEF Spec

-----------------------------------------------------------------------------
\* A step of the running process: the clock never goes back, and what is on record as
\* revoked or consumed stays so.
Forward ==
  /\ boot' = boot /\ now' \in {now, now + 1}
  /\ revoked \subseteq revoked' /\ consumed \subseteq consumed'

LEMMA ForwardOrRestart == [Next]_vars => Forward \/ Restart
BY DEF Next, Forward, Login, Refresh, Admit, Handler, Revoke, AdminRevokeToken, RevokeToken,
       AdminCreateToken, AdminCreateRejected, AdminRevokeSubject, BeginCommand, EndCommand,
       Tick, vars, store, history

LEMMA ForwardRevivesNone ==
  ASSUME Base, Forward, NEW t \in minted
  PROVE  ~Revives(t)
BY DEF Base, TypeOK, Token, Forward, Revives, DecodeToken, Secret

\* The secret of the process that starts has signed nothing yet.
LEMMA RestartVoidsAll ==
  ASSUME ~PersistentSecret, Base, AuthInv, Restart, NEW t \in minted
  PROVE  ~DecodeToken(t)'
<1>1. t.key # Secret'
  BY DEF Restart, Secret, AuthInv, Base, TypeOK, Token
<1> QED BY <1>1 DEF DecodeToken

(* Whichever way the secret is obtained, no step of a running process brings *)
(* back a token that decode_token refused.                                   *)
THEOREM RunningProcessRevivesNone == Spec => OnlyRestartRevives
<1>1. Base /\ [Next]_vars => [boot' = boot => \A t \in minted : ~Revives(t)]_vars
  <2> SUFFICES ASSUME Base, [Next]_vars, boot' = boot, NEW t \in minted PROVE ~Revives(t)
    OBVIOUS
  <2>1. ~Restart
    BY DEF Restart, Base, TypeOK
  <2> QED BY <2>1, ForwardOrRestart, ForwardRevivesNone
<1> QED BY <1>1, BaseInvariant, PTL DEF Spec, OnlyRestartRevives

(* With a generated secret nothing brings a token back, a restart included: *)
(* the records it loses are those of tokens it makes void.                  *)
THEOREM LapsedTokensStayLapsed ==
  ASSUME ~PersistentSecret
  PROVE  Spec => TokensNeverRevive
<1>1. Base /\ AuthInv /\ [Next]_vars => [\A t \in minted : ~Revives(t)]_vars
  <2> SUFFICES ASSUME Base, AuthInv, [Next]_vars, NEW t \in minted PROVE ~Revives(t)
    OBVIOUS
  <2> QED BY ForwardOrRestart, ForwardRevivesNone, RestartVoidsAll DEF Revives
<1> QED BY <1>1, BaseInvariant, AuthInvariant, PTL DEF Spec, TokensNeverRevive

-----------------------------------------------------------------------------
(***************************************************************************)
(* The refinement of TicketOffice: a grant buys, a rotation exchanges, and *)
(* every other step only makes tickets lapse.                              *)
(***************************************************************************)

\* The step consumes the tokens of a set, and no others.
Consumes(gone) == \A j : j \in consumed' <=> j \in consumed \/ \E t \in gone : j = t.jti

\* What a pair adds to the tickets: one, live at once, and nothing else comes or goes but
\* what is consumed in the same step.
LEMMA PairBringsTicket ==
  ASSUME Base, FreshInv, NEW sub \in Subjects, NEW role \in Roles, NEW scopes \in SUBSET AllScopes,
         IssuePair(sub, role, scopes),
         boot' = boot, now' = now, revoked' = revoked,
         NEW gone \in SUBSET minted, Consumes(gone)
  PROVE  \E b : /\ b \notin RefreshTokens /\ RefreshTokens' = RefreshTokens \cup {b}
               /\ LiveTokens' = (LiveTokens \ gone) \cup {b}
               /\ b.sub = sub /\ b.role = role /\ b.scopes = scopes
<1>a. PICK a : a = CreateAccessToken(NextJti, sub, role, scopes)
  OBVIOUS
<1>b. PICK b : b = CreateRefreshToken(NextJti + 1, sub, role, scopes)
  OBVIOUS
<1>1. /\ a.tt = "access" /\ a.jti = NextJti
      /\ b.tt = "refresh" /\ b.jti = NextJti + 1 /\ b.key = Secret /\ b.exp = now + RefreshTTL
      /\ b.sub = sub /\ b.role = role /\ b.scopes = scopes
      /\ minted' = minted \cup {a, b}
  BY <1>a, <1>b DEF CreateAccessToken, CreateRefreshToken, CreateToken, IssuePair
<1>2. NextJti \in Nat /\ NextJti = Cardinality(minted)
  BY IssuePairEffect DEF NextJti
<1>3. b \notin minted
  BY <1>1, <1>2 DEF Base
<1>4. RefreshTokens' = RefreshTokens \cup {b} /\ b \notin RefreshTokens
  BY <1>1, <1>3 DEF RefreshTokens
<1>5. DecodeToken(b)'
  <2>1. b.jti \notin revoked \cup consumed
    BY <1>1, <1>2 DEF FreshInv, Base, TypeOK
  <2>2. \A t \in gone : b.jti # t.jti
    BY <1>1, <1>2 DEF Base, TypeOK, Token
  <2>3. now < now + RefreshTTL
    BY AuthAssumption DEF Base, TypeOK
  <2>4. Secret' = Secret
    BY DEF Secret
  <2>5. b.jti \notin revoked' /\ b.jti \notin consumed'
    BY <2>1, <2>2 DEF Consumes
  <2> QED BY <1>1, <2>3, <2>4, <2>5 DEF DecodeToken
<1>6. ASSUME NEW t \in RefreshTokens
      PROVE  DecodeToken(t)' <=> DecodeToken(t) /\ t \notin gone
  <2>1. (\E u \in gone : t.jti = u.jti) <=> t \in gone
    BY DEF RefreshTokens, FreshInv
  <2> QED BY <2>1 DEF RefreshTokens, DecodeToken, Secret, Consumes
<1>7. LiveTokens' = (LiveTokens \ gone) \cup {b}
  <2>1. LiveTokens' = {t \in RefreshTokens' : DecodeToken(t)'}
    BY DEF LiveTokens
  <2>2. ASSUME NEW t PROVE t \in LiveTokens' <=> t \in (LiveTokens \ gone) \cup {b}
    <3>1. CASE t = b
      BY <1>4, <1>5, <2>1, <3>1
    <3>2. CASE t # b
      BY <1>4, <1>6, <2>1, <3>2 DEF LiveTokens
    <3> QED BY <3>1, <3>2
  <2> QED BY <2>2
<1> QED BY <1>1, <1>4, <1>7

LEMMA GrantBuys ==
  ASSUME Base, FreshInv, NEW sub \in Subjects, NEW role \in Roles, NEW scopes \in SUBSET AllScopes,
         IssuePair(sub, role, scopes), Granted(sub),
         boot' = boot, now' = now, revoked' = revoked, consumed' = consumed
  PROVE  Office!Next
<1>1. PICK b : /\ b \notin RefreshTokens /\ RefreshTokens' = RefreshTokens \cup {b}
               /\ LiveTokens' = LiveTokens \cup {b} /\ b.sub = sub
  <2>1. PICK gone \in SUBSET minted : gone = {}
    OBVIOUS
  <2>2. Consumes(gone)
    BY <2>1 DEF Consumes
  <2>3. LiveTokens \ gone = LiveTokens
    BY <2>1
  <2>4. \E b : /\ b \notin RefreshTokens /\ RefreshTokens' = RefreshTokens \cup {b}
               /\ LiveTokens' = (LiveTokens \ gone) \cup {b} /\ b.sub = sub
    BY <2>2, PairBringsTicket
  <2> QED BY <2>3, <2>4
<1>2. grants' = [grants EXCEPT ![b.sub] = @ + 1]
  BY <1>1 DEF Granted
<1>3. Office!Buy(b)
  BY <1>1, <1>2 DEF Office!Buy, Office!New
<1>4. b \in RefreshTokens'
  BY <1>1
<1> QED BY <1>3, <1>4 DEF Office!Next

LEMMA RotationExchanges ==
  ASSUME Base, FreshInv, NEW t \in minted, Refresh(t)
  PROVE  Office!Next
<1>1. t.sub \in Subjects /\ t.role \in Roles /\ t.scopes \in SUBSET AllScopes
  BY DEF Base, TypeOK, Token
<1>2. PICK b : /\ b \notin RefreshTokens /\ RefreshTokens' = RefreshTokens \cup {b}
               /\ LiveTokens' = (LiveTokens \ {t}) \cup {b}
               /\ b.sub = t.sub /\ b.role = t.role /\ b.scopes = t.scopes
  <2>1. PICK gone \in SUBSET minted : gone = {t}
    OBVIOUS
  <2>2. Consumes(gone)
    BY <2>1 DEF Refresh, Consumes
  <2>3. LiveTokens \ gone = LiveTokens \ {t}
    BY <2>1
  <2>4. /\ IssuePair(t.sub, t.role, t.scopes)
        /\ boot' = boot /\ now' = now /\ revoked' = revoked
    BY DEF Refresh
  <2>5. \E b : /\ b \notin RefreshTokens /\ RefreshTokens' = RefreshTokens \cup {b}
               /\ LiveTokens' = (LiveTokens \ gone) \cup {b}
               /\ b.sub = t.sub /\ b.role = t.role /\ b.scopes = t.scopes
    BY <1>1, <2>2, <2>4, PairBringsTicket
  <2> QED BY <2>3, <2>5
<1>3. grants' = grants
  BY DEF Refresh
<1>4. Office!Exchange(t, b)
  BY <1>2, <1>3 DEF Office!Exchange, Office!New, Office!Bearer
<1>5. t \in LiveTokens /\ b \in RefreshTokens'
  BY <1>2 DEF Refresh, LiveTokens, RefreshTokens
<1> QED BY <1>4, <1>5 DEF Office!Next

LEMMA OthersLapse ==
  ASSUME minted' = minted, grants' = grants, \A t \in minted : ~Revives(t)
  PROVE  Office!Next
<1>1. RefreshTokens' = RefreshTokens /\ LiveTokens' \subseteq LiveTokens
  BY DEF RefreshTokens, LiveTokens, Revives
<1> QED BY <1>1 DEF Office!Next, Office!Lapse

(* A step grants a pair, rotates one, or leaves the tokens as they are. *)
LEMMA StepIsTicketStep ==
  ASSUME ~PersistentSecret, Base, AuthInv, FreshInv, [Next]_vars
  PROVE  Office!Next
<1>1. ASSUME NEW s \in Subjects, NEW role \in Roles, NEW requested \in ScopeRequests,
             Login(s, role, requested)
      PROVE  Office!Next
  <2>1. GrantedScopes(role, requested) \in SUBSET AllScopes
    BY <1>1 DEF Login, GrantedScopes, DefaultScopes, AllScopes, Roles
  <2> QED BY <1>1, <2>1, GrantBuys DEF Login
<1>2. ASSUME NEW c \in Clients, NEW role \in Roles, NEW requested \in ScopeRequests,
             AdminCreateToken(c, role, requested)
      PROVE  Office!Next
  <2>1. GrantedScopes(role, requested) \in SUBSET AllScopes
    BY <1>2 DEF AdminCreateToken, GrantedScopes, DefaultScopes, AllScopes, Roles
  <2>2. req[c].arg \in Subjects
    BY <1>2 DEF AdminCreateToken, Handles, Base, TypeOK, RequestOK
  <2> QED BY <1>2, <2>1, <2>2, GrantBuys DEF AdminCreateToken
<1>3. CASE minted' = minted /\ grants' = grants
  BY <1>3, ForwardOrRestart, ForwardRevivesNone, RestartVoidsAll, OthersLapse DEF Revives
<1>4. \/ \E s \in Subjects, role \in Roles, requested \in ScopeRequests : Login(s, role, requested)
      \/ \E c \in Clients, role \in Roles, requested \in ScopeRequests :
           AdminCreateToken(c, role, requested)
      \/ \E t \in minted : Refresh(t)
      \/ minted' = minted /\ grants' = grants
  BY DEF Next, Admit, Handler, Revoke, AdminRevokeToken, RevokeToken, AdminCreateRejected,
         AdminRevokeSubject, BeginCommand, EndCommand, Tick, Restart, vars, store, history
<1> QED BY <1>1, <1>2, <1>3, <1>4, RotationExchanges

(* The refresh tokens are the tickets of a TicketOffice: what login and the *)
(* admin grant is bought, POST /v1/auth/refresh exchanges one for one, and  *)
(* expiry, revocation and restarts only void.                               *)
THEOREM RefreshTokensRefineTickets ==
  ASSUME ~PersistentSecret
  PROVE  Spec => RefreshTokensAreTickets
<1>1. Init => Office!Init
  BY DEF Init, Office!Init, RefreshTokens, LiveTokens
<1>2. Base /\ AuthInv /\ FreshInv /\ [Next]_vars => [Office!Next]_<<RefreshTokens, LiveTokens, grants>>
  BY StepIsTicketStep
<1> QED
  BY <1>1, <1>2, BaseInvariant, AuthInvariant, FreshInvariant, PTL
     DEF Spec, RefreshTokensAreTickets, Office!Spec
=============================================================================
