----------------------------- MODULE MCWorkspaces -----------------------------
EXTENDS Workspaces

MCSize(line) == CASE line = "long" -> 9 [] line = "wide" -> 3 [] OTHER -> 1
Edit(old, new, all) == [kind |-> "edit", old |-> old, new |-> new, all |-> all]
MCJobs == { [kind |-> "bash"], [kind |-> "read"], [kind |-> "write", text |-> <<"b">>],
            Edit("a", "b", FALSE), Edit("wide", "a", TRUE) }
MCLines == {"a", "b", "wide", "long"}
MCContents == { NoFile, Binary, Picture, BigPicture, <<>>, <<"a", "wide">>, <<"a", "long", "wide", "a">> }
=============================================================================
