----------------------------- MODULE SmtpSettings -----------------------------
(***************************************************************************)
(* The password of the mail server, which alerts are sent through.  It is  *)
(* kept in the setting "smtp", encrypted with a key that is derived from   *)
(* the hash of the admin's password and a salt: the dashboard saves it     *)
(* (UpdateSettings) and changes the admin's password (ChangePassword), the *)
(* notification engine decrypts it (ConfigureSMTP), and the start of the   *)
(* daemon (main.go) gives both their keys.                                 *)
(*                                                                         *)
(* A key is a pair of a hash and a salt.  An encrypted text is the text    *)
(* and the keys it was encrypted with, the last one last; the mark "enc:"  *)
(* is never put before it.  A text of the user's is not base64 of 24       *)
(* characters or more.                                                     *)
(***************************************************************************)
EXTENDS Integers, Sequences

CONSTANTS
    MaxMailRequests,    \* bound: saves and changes of the password
    MaxMailFaults       \* bound: crashes and calls of the database that fail

ASSUME SmtpAssumption == MaxMailRequests \in Nat /\ MaxMailFaults \in Nat

VARIABLES
    admin,      \* hash of the admin's password: in the database, in memory
    salt,       \* salt of the keys: in the database, in memory
    smtp,       \* the password in the setting, or NoPassword
    engine,     \* the notification engine: its keys, the mailer's password
    requests,   \* what each of two clients has the server do
    mailed      \* history, and the numbers given out so far

smtpVars == <<admin, salt, smtp, engine, requests, mailed>>

Clients == {1, 2}
Text(n) == [text |-> n, keys |-> <<>>]
NoPassword == Text(0)
NoKey == <<0, 0>>
NoRequest == [at |-> "none", old |-> 0, new |-> 0, password |-> NoPassword]

\* 0 stands for no hash and no salt.  Hash 1 is that of the password in .env.
SmtpInit ==
    /\ admin = [db |-> 0, memory |-> 0]
    /\ salt = [db |-> 0, memory |-> 0]
    /\ smtp = NoPassword
    /\ engine = [at |-> "down", key |-> NoKey, legacy |-> NoKey, mailer |-> NoPassword]
    /\ requests = [c \in Clients |-> NoRequest]
    /\ mailed = [requests |-> 0, faults |-> 0, fresh |-> 1, typed |-> 0,
                 blank |-> FALSE, changed |-> FALSE, lost |-> FALSE, crossed |-> FALSE]

MailFault == mailed.faults < MaxMailFaults
Failed == [mailed EXCEPT !.faults = @ + 1]
Fresh == mailed.fresh + 1
Idle == \A c \in Clients : requests[c] = NoRequest

-----------------------------------------------------------------------------
(* Keys *)

DeriveEncryptionKey(hash) == <<hash, salt.memory>>
DeriveLegacyEncryptionKey(hash) == <<hash, 0>>

Encrypt(p, key) == [p EXCEPT !.keys = Append(@, key)]
Decrypts(p, key) == p.keys # <<>> /\ p.keys[Len(p.keys)] = key
Decrypt(p) == [p EXCEPT !.keys = SubSeq(@, 1, Len(@) - 1)]

-----------------------------------------------------------------------------
(* The start of the daemon *)

\* initEncryptionSalt and the password of main.  A salt or a hash that cannot
\* be read is made anew and stored over the old one.
StartStore ==
    /\ engine.at = "down"
    /\ \E read, stored, found, put \in BOOLEAN :
          /\ ~(read /\ stored /\ found /\ put) => MailFault
          /\ LET kept == read /\ salt.db # 0
                 known == found /\ admin.db # 0
             IN /\ salt' = IF kept THEN [salt EXCEPT !.memory = salt.db]
                           ELSE IF stored THEN [db |-> Fresh, memory |-> Fresh]
                           ELSE [salt EXCEPT !.memory = 0]
                /\ admin' = IF known THEN [admin EXCEPT !.memory = admin.db]
                            ELSE [db |-> IF put THEN 1 ELSE admin.db, memory |-> 1]
                /\ mailed' = [mailed EXCEPT
                      !.fresh = IF kept THEN @ ELSE Fresh,
                      !.faults = IF read /\ stored /\ found /\ put THEN @ ELSE @ + 1,
                      !.lost = @ \/ (~read /\ salt.db # 0) \/ (~found /\ admin.db # 0)]
    /\ engine' = [engine EXCEPT !.at = "starting"]
    /\ UNCHANGED <<smtp, requests>>

\* A bug to detect: there is no way back to the key of older versions.
ConfigureCurrent(e, stored) ==
    [e EXCEPT !.mailer = IF Decrypts(stored, e.key) THEN Decrypt(stored) ELSE stored]

\* ConfigureSMTP: what no key decrypts is used as it is.
ConfigureSMTP(e, stored) ==
    [e EXCEPT !.mailer = IF Decrypts(stored, e.key) \/ Decrypts(stored, e.legacy)
                         THEN Decrypt(stored) ELSE stored]

\* It saves what only the old key decrypts once more, with the current one.
Migrated(e, stored) ==
    IF ~Decrypts(stored, e.key) /\ Decrypts(stored, e.legacy)
    THEN Encrypt(Decrypt(stored), e.key) ELSE stored

StartEngine ==
    /\ engine.at = "starting"
    /\ LET e == [engine EXCEPT !.at = "up", !.key = DeriveEncryptionKey(admin.memory),
                               !.legacy = DeriveLegacyEncryptionKey(admin.memory)]
       IN /\ engine' = ConfigureSMTP(e, smtp)
          /\ \/ smtp' = Migrated(e, smtp) /\ UNCHANGED mailed
             \/ MailFault /\ UNCHANGED smtp /\ mailed' = Failed
    /\ UNCHANGED <<admin, salt, requests>>

StopDaemon ==
    /\ engine.at # "down"
    /\ Idle \/ MailFault
    /\ mailed' = IF Idle THEN mailed ELSE Failed
    /\ admin' = [admin EXCEPT !.memory = 0]
    /\ salt' = [salt EXCEPT !.memory = 0]
    /\ engine' = [at |-> "down", key |-> NoKey, legacy |-> NoKey, mailer |-> NoPassword]
    /\ requests' = [c \in Clients |-> NoRequest]
    /\ UNCHANGED smtp

-----------------------------------------------------------------------------
(* UpdateSettings with "smtp" *)

Requested(c, r, past) ==
    /\ engine.at = "up" /\ requests[c] = NoRequest
    /\ mailed.requests < MaxMailRequests
    /\ requests' = [requests EXCEPT ![c] = r]
    /\ mailed' = [past EXCEPT !.requests = @ + 1, !.crossed = @ \/ ~Idle]

\* A new password, or none: then the stored one is kept, if it can be read.  What
\* does not carry the mark is encrypted, and that is everything.
SaveSmtp(c) ==
    /\ \E typed, unread \in BOOLEAN :
          LET p == IF typed THEN Text(Fresh) ELSE IF unread THEN NoPassword ELSE smtp
          IN /\ Requested(c, [at |-> "save", old |-> 0, new |-> IF typed THEN Fresh ELSE 0,
                              password |-> IF p = NoPassword THEN p
                                           ELSE Encrypt(p, DeriveEncryptionKey(admin.memory))],
                          [mailed EXCEPT !.fresh = IF typed THEN Fresh ELSE @,
                                         !.blank = @ \/ ~typed,
                                         !.faults = IF unread THEN @ + 1 ELSE @])
             /\ unread => ~typed /\ MailFault
    /\ UNCHANGED <<admin, salt, smtp, engine>>

WriteSmtp(c) ==
    /\ requests[c].at = "save"
    /\ \/ /\ smtp' = requests[c].password
          /\ requests' = [requests EXCEPT ![c].at = "configure"]
          /\ mailed' = IF requests[c].new = 0 THEN mailed
                       ELSE [mailed EXCEPT !.typed = requests[c].new, !.blank = FALSE]
       \/ /\ MailFault
          /\ requests' = [requests EXCEPT ![c] = NoRequest]
          /\ mailed' = Failed /\ UNCHANGED smtp
    /\ UNCHANGED <<admin, salt, engine>>

Reconfigure(c) ==
    /\ requests[c].at = "configure"
    /\ engine' = ConfigureSMTP(engine, smtp)
    /\ \/ smtp' = Migrated(engine, smtp) /\ UNCHANGED mailed
       \/ MailFault /\ UNCHANGED smtp /\ mailed' = Failed
    /\ requests' = [requests EXCEPT ![c] = NoRequest]
    /\ UNCHANGED <<admin, salt>>

-----------------------------------------------------------------------------
(* ChangePassword *)

\* The current password is right.  bcrypt makes a new hash of any password.
ChangePassword(c) ==
    /\ Requested(c, [NoRequest EXCEPT !.at = "upsert", !.old = admin.memory, !.new = Fresh],
                 [mailed EXCEPT !.fresh = Fresh])
    /\ UNCHANGED <<admin, salt, smtp, engine>>

\* A bug to detect: the new hash is in use before it is stored.
UpsertUsed(c) ==
    /\ requests[c].at = "upsert"
    /\ \/ /\ admin' = [db |-> requests[c].new, memory |-> requests[c].new]
          /\ requests' = [requests EXCEPT ![c].at = "update"]
          /\ mailed' = [mailed EXCEPT !.changed = TRUE]
       \/ /\ MailFault
          /\ admin' = [admin EXCEPT !.memory = requests[c].new]
          /\ requests' = [requests EXCEPT ![c] = NoRequest]
          /\ mailed' = Failed
    /\ UNCHANGED <<salt, smtp, engine>>

UpsertUser(c) ==
    /\ requests[c].at = "upsert"
    /\ \/ /\ admin' = [admin EXCEPT !.db = requests[c].new]
          /\ requests' = [requests EXCEPT ![c].at = "update"]
          /\ mailed' = [mailed EXCEPT !.changed = TRUE]
       \/ /\ MailFault
          /\ requests' = [requests EXCEPT ![c] = NoRequest]
          /\ mailed' = Failed /\ UNCHANGED admin
    /\ UNCHANGED <<salt, smtp, engine>>

UpdatePassword(c) ==
    /\ requests[c].at = "update"
    /\ admin' = [admin EXCEPT !.memory = requests[c].new]
    /\ requests' = [requests EXCEPT ![c].at = "read"]
    /\ UNCHANGED <<salt, smtp, engine, mailed>>

\* reEncryptSMTPPassword: without the mark the password counts as plain text.
ReEncrypt(c) ==
    /\ requests[c].at = "read"
    /\ requests' = [requests EXCEPT ![c] =
          IF smtp = NoPassword THEN NoRequest
          ELSE [@ EXCEPT !.at = "rewrite",
                         !.password = Encrypt(smtp, DeriveEncryptionKey(requests[c].new))]]
    /\ UNCHANGED <<admin, salt, smtp, engine, mailed>>

\* A failure is logged.  The engine keeps its keys and its mailer.
Rewrite(c) ==
    /\ requests[c].at = "rewrite"
    /\ \/ smtp' = requests[c].password /\ UNCHANGED mailed
       \/ MailFault /\ UNCHANGED smtp /\ mailed' = Failed
    /\ requests' = [requests EXCEPT ![c] = NoRequest]
    /\ UNCHANGED <<admin, salt, engine>>

SmtpNext ==
    \/ StartStore \/ StartEngine \/ StopDaemon
    \/ \E c \in Clients :
          \/ SaveSmtp(c) \/ WriteSmtp(c) \/ Reconfigure(c)
          \/ ChangePassword(c) \/ UpsertUser(c) \/ UpdatePassword(c)
          \/ ReEncrypt(c) \/ Rewrite(c)

\* Every property is about what may happen: nothing here has to.
SmtpSpec == SmtpInit /\ [][SmtpNext]_smtpVars

-----------------------------------------------------------------------------
(* Properties *)

\* The mailer presents the password that was saved last.
Presented == engine.at = "up" /\ Idle => engine.mailer = Text(mailed.typed)

\* A password that was typed in and saved is the one the mailer presents, then
\* and after any restarts, with or without a salt at each of them, until a save
\* leaves it blank or the admin's password is changed.  A salt or a hash that
\* was there and could not be read is an exception, and so are requests that
\* overlapped.
TypedPasswordIsPresented ==
    ~mailed.blank /\ ~mailed.changed /\ ~mailed.lost /\ ~mailed.crossed => Presented

\* The password that lets the admin in does so after a restart as well, whatever
\* failed and whenever the daemon crashed, unless two changes overlapped, or the
\* first hash was never stored or a later one could not be read.
AdminKeepsPassword ==
    engine.at = "up" /\ Idle /\ ~mailed.crossed /\ ~mailed.lost /\ admin.db # 0 =>
       admin.memory = admin.db

\* The comment of UpdateSettings: "If password is empty, preserve the existing
\* password".  False: what is stored does not show that it is encrypted, and is
\* encrypted once more.
BlankKeepsPassword ==
    ~mailed.changed /\ ~mailed.lost /\ ~mailed.crossed /\ mailed.faults = 0 => Presented

\* docs/ENCRYPTION_IMPLEMENTATION.md: "When the admin password changes, all
\* encrypted data is automatically re-encrypted with the new key."  False: it is
\* not decrypted before, and the engine goes on with the old key.
ChangeKeepsPassword ==
    ~mailed.blank /\ ~mailed.lost /\ ~mailed.crossed /\ mailed.faults = 0 => Presented
=============================================================================
