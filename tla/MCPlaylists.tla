----------------------------- MODULE MCPlaylists -----------------------------
(* Small instances of Playlists. *)
EXTENDS Playlists, TLC

OneAlbum == {<<"a", "b">>}

Symmetry == Permutations(Requests) \cup Permutations(Users)

=============================================================================
