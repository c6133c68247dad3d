------------------------------- MODULE Requests -------------------------------
(***************************************************************************)
(* What a row of public.commands asks for, reduced to what decides its     *)
(* way through Dispatcher.Handle: the kind, and whether each part of the   *)
(* payload that Handle looks at is usable.                                 *)
(***************************************************************************)

PowerActions    == {"start", "stop", "reboot", "shutdown", "suspend", "resume"}
SnapshotActions == {"snapshot.create", "snapshot.delete", "snapshot.rollback"}
CreateActions   == {"vm.create", "lxc.create"}

KnownKinds == PowerActions \cup SnapshotActions \cup CreateActions \cup {"guest.delete"}

\* "sealed": password_enc that decrypts; "corrupt": password_enc that does not
\* decode or decrypt (whatever else the payload holds); "plain": only the
\* deprecated plaintext field; "none": neither.
Passwords == {"sealed", "corrupt", "plain", "none"}

Request == [kind      : KnownKinds \cup {"unknown"},
            decodes   : BOOLEAN,  \* the payload is JSON of the expected shape
            guestKind : {"qemu", "lxc", "other"},
            located   : BOOLEAN,  \* a node name and a positive vmid
            nameOk    : BOOLEAN,  \* the name matches SnapshotNamePattern
            password  : Passwords,
            ttl       : BOOLEAN]  \* expires_at is set

ResolvesPassword(r) == r.password \in {"sealed", "plain"}

\* Every early "failed" completion of Handle between the claim and the call
\* to Proxmox.
Rejected(r) ==
  \/ r.kind \notin KnownKinds
  \/ ~r.decodes
  \/ r.guestKind \notin {"qemu", "lxc"}
  \/ ~r.located
  \/ r.kind \in SnapshotActions /\ ~r.nameOk
  \/ r.kind = "lxc.create" /\ ~ResolvesPassword(r)
===============================================================================
