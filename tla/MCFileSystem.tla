--------------------------- MODULE MCFileSystem ---------------------------
EXTENDS UserTests
\* Two processes on a few names.
MCCalls == {creat(<<"a">>), ln(<<"a">>, <<"b">>), rm(<<"a">>), rd(<<"a">>), mkdir(<<"b">>), rm(<<"b">>), close}
Free == <<MCCalls, Results>>
Tests == {init, iputtest, exitiputtest, openiputtest, opentest, writetest, createtest, dirtest, createdelete, unlinkread, linktest, linkunlink, bigdir, subdir,
          fourteen, rmdot, dirfile, iref} \cup concreate
\* A parent and a child share a pipe, if there is one; three processes compete for files.
Piped == << <<any(pipe), fork_, any(<<"close", 1>>), any(pipe), wait_>>, <<any(close), any(pipe), exit_>> >>
Pipes == <<{creat(<<"a">>), pipe}, Results>>
\* ls.c opens and asks for the link count, another process links and removes the name;
\* one runs a program that another one removes; forks that find no slot.
Listed == << <<any(rd(<<"README">>)), any(<<"fstat", 0>>), any(close), any(<<"fstat", 0>>)>>,
             <<any(ln(<<"README">>, <<"b">>)), any(wr(<<"b">>)), bad(<<"read", 0>>), any(rm(<<"README">>))>> >>
Execs == << <<any(<<"exec", <<"README">> >>), any(<<"exec", <<"a">> >>)>>, <<any(rm(<<"README">>)), any(creat(<<"a">>))>> >>
Crowd == << <<fork_, fork_, any(<<"fork">>), any(<<"fork">>)>>, <<exit_>>, <<any(pipe), any(<<"fstat", 0>>), exit_>> >>
MCScenarios == Tests \cup {Listed, Execs, Crowd, Piped, << <<Pipes>>, <<Pipes>>, <<Pipes>> >>,
                           << <<Free, Free>>, <<Free, Free>> >>, << <<Free>>, <<Free>>, <<Free>> >>}
MCLinkUnlink == {linkunlink}
=============================================================================
