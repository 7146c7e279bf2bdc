----------------------------- MODULE MCSessions -----------------------------
(* Small instances of Sessions for TLC: the requests and their endpoints. *)
EXTENDS Sessions, TLC

CONSTANTS r1, r2, r3, r4, r5, r6

(* One browser: a login, two refreshes of its cookie, a logout and a reset. *)
TokensOp == (r1 :> "password" @@ r2 :> "refresh" @@ r3 :> "refresh" @@ r4 :> "logout" @@ r5 :> "reset")

(* Two logins, a change and two resets, of which two are alike each, and a logout. *)
PasswordsOp == (r1 :> "phone" @@ r2 :> "phone" @@ r3 :> "change" @@ r4 :> "reset" @@ r5 :> "reset"
                @@ r6 :> "logout")
PasswordsSymmetry == Permutations({r1, r2}) \cup Permutations({r4, r5})
=============================================================================
