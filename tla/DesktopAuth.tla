----------------------------- MODULE DesktopAuth ----------------------------
(***************************************************************************)
(* The licence and the sessions of the desktop till: auth.go of            *)
(* offline-menuvex.  The licence file is signed with a secret kept in a    *)
(* second file; licenseSecret makes a new secret whenever it cannot read a *)
(* whole one, also when it is only checking a signature.  Reading, writing *)
(* and signing are separate steps of concurrent requests; no lock covers   *)
(* them.  Sessions live in memory under a mutex and are copied to disk by  *)
(* every change (persistSessionsLocked), through a rename.                 *)
(***************************************************************************)
EXTENDS Integers, FiniteSets

CONSTANTS Callers,       \* requests that read or activate the licence
          Secrets,       \* random secrets
          Tokens,        \* session tokens
          MaxActivations,\* bound: activations of a licence
          NoSecret

ASSUME NoSecretIsNone == NoSecret \notin Secrets

VARIABLES secret,        \* the secret file: a member of Secrets, or NoSecret when it is
                         \* missing or shorter than 32 bytes
          license,       \* the licence file: the secret it is signed with, NoSecret for
                         \* no file.  Expiry only changes what pages are shown.
          caller,        \* what each caller is at
          activations,
          sessions,      \* in memory
          disk,          \* the sessions file
          left,          \* history: tokens that logged out
          spoilt,        \* history: a read of the secret failed, or two callers
                         \* made one at a time
          unsaved,       \* history: the last change of the sessions did not reach the disk
          lost           \* history: the program stopped in such a moment

authVars == <<secret, license, caller, activations, sessions, disk, left, spoilt, unsaved, lost>>

Resting == [pc |-> "idle", goal |-> "none", key |-> NoSecret]

Checking == [Resting EXCEPT !.pc = "secret", !.goal = "check"]

AuthInit ==
  /\ secret = NoSecret /\ license = NoSecret
  /\ caller = [c \in Callers |-> Resting]
  /\ activations = 0
  /\ sessions = {} /\ disk = {} /\ left = {}
  /\ spoilt = "no" /\ unsaved = "no" /\ lost = "no"

----------------------------------------------------------------------------
(* The licence.                                                            *)

UsedSecrets == {secret, license} \cup {caller[c].key : c \in Callers}

\* ActivateLicense with an acceptable key.
ActivateLicense(c) ==
  /\ caller[c].pc = "idle"
  /\ activations < MaxActivations
  /\ activations' = activations + 1
  /\ caller' = [caller EXCEPT ![c] = [Resting EXCEPT !.pc = "secret", !.goal = "sign"]]
  /\ UNCHANGED <<secret, license, sessions, disk, left, spoilt, unsaved, lost>>

\* enforceAuth asks LicenseState on every request, handleLogin for the page of a
\* refusal.  Without a licence file it does not come to the secret.
enforceAuth(c) ==
  /\ caller[c].pc = "idle"
  /\ license # NoSecret
  /\ caller' = [caller EXCEPT ![c] = Checking]
  /\ UNCHANGED <<secret, license, activations, sessions, disk, left, spoilt, unsaved, lost>>

\* Mutant: an activation always draws a secret of its own.
ReadSecretAnew(c) ==
  /\ caller[c].pc = "secret"
  /\ \/ /\ secret # NoSecret /\ caller[c].goal = "check"
        /\ caller' = [caller EXCEPT ![c].pc = "signed", ![c].key = secret]
     \/ /\ caller[c].goal = "sign"
        /\ \E s \in Secrets \ UsedSecrets : caller' = [caller EXCEPT ![c].pc = "write", ![c].key = s]
  /\ UNCHANGED <<secret, license, activations, sessions, disk, left, spoilt, unsaved, lost>>

\* licenseSecret: the file is read; an error, or a file too short, and the
\* caller draws a new secret.
ReadSecret(c) ==
  /\ caller[c].pc = "secret"
  /\ \/ /\ secret # NoSecret
        /\ caller' = [caller EXCEPT ![c].pc = "signed", ![c].key = secret]
        /\ UNCHANGED spoilt
     \/ \E s \in Secrets \ UsedSecrets :
          /\ caller' = [caller EXCEPT ![c].pc = "write", ![c].key = s]
          /\ spoilt' = IF secret # NoSecret \/ \E d \in Callers \ {c} : caller[d].pc = "write" THEN "yes" ELSE spoilt
  /\ UNCHANGED <<secret, license, activations, sessions, disk, left, unsaved, lost>>

\* os.WriteFile truncates, then writes; a failure ends the request.
WriteSecret(c) ==
  /\ caller[c].pc = "write"
  /\ \/ /\ secret' = caller[c].key
        /\ caller' = [caller EXCEPT ![c].pc = "signed"]
     \/ /\ secret' \in {secret, NoSecret}
        /\ caller' = [caller EXCEPT ![c] = Resting]
  /\ UNCHANGED <<license, activations, sessions, disk, left, spoilt, unsaved, lost>>

\* A check ends here.  An activation replaces the licence file by a rename and
\* reads the licence back, or fails and leaves it as it was.
Signed(c) ==
  /\ caller[c].pc = "signed"
  /\ \/ /\ license' = license
        /\ caller' = [caller EXCEPT ![c] = Resting]
     \/ /\ caller[c].goal = "sign"
        /\ license' = caller[c].key
        /\ caller' = [caller EXCEPT ![c] = Checking]
  /\ UNCHANGED <<secret, activations, sessions, disk, left, spoilt, unsaved, lost>>

----------------------------------------------------------------------------
(* Sessions.                                                               *)

\* persistSessionsLocked after a change; a failure is ignored.
Persist(new) ==
  /\ sessions' = new
  /\ \/ disk' = new /\ unsaved' = "no"
     \/ disk' = disk /\ unsaved' = "yes"
  /\ UNCHANGED <<secret, license, caller, activations, spoilt, lost>>

\* handleLogin, past its checks.  The form needs no licence, only its page does.
newSession(t) ==
  /\ t \notin sessions \cup disk \cup left
  /\ Persist(sessions \cup {t})
  /\ UNCHANGED left

\* Mutant: the session is dropped in memory only.
dropSessionInMemory(t) ==
  /\ t \in sessions \cup left
  /\ sessions' = sessions \ {t}
  /\ left' = left \cup {t}
  /\ UNCHANGED <<secret, license, caller, activations, disk, spoilt, unsaved, lost>>

\* handleLogout.
dropSession(t) ==
  /\ t \in sessions \cup left
  /\ Persist(sessions \ {t})
  /\ left' = left \cup {t}

\* The program stops at any point and starts again: loadSessionsFile, without
\* any session when the file cannot be read.  A write of the secret that was
\* under way may leave a file that is too short.
Restart ==
  /\ sessions' \in {disk, {}}
  /\ secret' \in {secret} \cup IF \E c \in Callers : caller[c].pc = "write" THEN {NoSecret} ELSE {}
  /\ caller' = [c \in Callers |-> Resting]
  /\ lost' = IF unsaved = "yes" THEN "yes" ELSE lost
  /\ UNCHANGED <<license, activations, disk, left, spoilt, unsaved>>

AuthNext ==
  \/ \E c \in Callers :
       ActivateLicense(c) \/ enforceAuth(c) \/ ReadSecret(c) \/ WriteSecret(c) \/ Signed(c)
  \/ \E t \in Tokens : newSession(t) \/ dropSession(t)
  \/ Restart

----------------------------------------------------------------------------
(* Properties.                                                             *)

\* A licence, once activated, stays valid until it expires: through restarts,
\* further activations and any number of checks.  What breaks it for good is a
\* secret file that could not be read once, or two callers that found none at
\* the same time (licenseSecret then replaces the secret the licence is signed
\* with).
LicenseStaysValid ==
  license # NoSecret /\ spoilt = "no" => license = secret

\* Logging out clears the session in memory and on disk: it is not accepted
\* again, also after restarts, unless the program stopped while the sessions
\* file could not be written.
LoggedOutStaysOut ==
  \A t \in left : t \in sessions => lost = "yes"
=============================================================================
