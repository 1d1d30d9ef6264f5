------------------------------- MODULE Installer -------------------------------
(***************************************************************************)
(* artifact.Installer.Ensure, internal/artifact/install.go: every Up       *)
(* downloads each pinned tool again into a temporary file, compares its     *)
(* digest with the manifest's, extracts the member of an archive, and       *)
(* renames the result to bin/<tool>.  A content is the version it is the    *)
(* pinned artifact of, or Corrupt.                                          *)
(***************************************************************************)
EXTENDS Integers

CONSTANTS
  Tools,     (* the pinned tools                                            *)
  Versions   (* versions of the manifest                                    *)

VARIABLES
  bin,       (* bin/<tool>                                                  *)
  body       (* the temporary file of the download under way                *)

installerVars == <<bin, body>>

Missing == 0
Corrupt == -1
Contents == Versions \cup {Missing, Corrupt}

Init == bin = [t \in Tools |-> Missing] /\ body = Missing

(* The body is the artifact, or it is not: a truncated or another file.    *)
Download(v, good) ==
  /\ body' = IF good THEN v ELSE Corrupt
  /\ UNCHANGED bin

(* Fault of the next operator: whatever was downloaded is accepted.        *)
DigestUnchecked(v) == body # Missing

(* parseIntegrity and equalDigest.                                         *)
DigestMatches(v) == body = v

(* os.Chmod or extractMember, then os.Rename.                              *)
Place(t) ==
  /\ bin' = [bin EXCEPT ![t] = body]
  /\ body' = Missing

(* The deferred os.Remove.                                                 *)
Discard == body' = Missing /\ UNCHANGED bin

InstallerTypeOK == bin \in [Tools -> Contents] /\ body \in Contents

=============================================================================
