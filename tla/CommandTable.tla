---------------------------- MODULE CommandTable ----------------------------
(***************************************************************************)
(* What the service knows about a command (shell/commands.py): its roles,  *)
(* the options whose value is the next token, and which of its arguments   *)
(* are paths.  The upload, output and read-only options of the network     *)
(* commands stay inside the matchers of Stage1.                            *)
(***************************************************************************)
Role == {"readonly", "mutating", "network", "downloader", "interpreter", "shell",
         "firewall", "escalator", "wrapper", "stdin-forwarder"}

PathArguments == {"undeclared", "every", "search-roots"}

\* A row, of all the commands that differ in the name only.
Row(names, roles, flags, paths) ==
  [names |-> names, roles |-> roles, valueFlags |-> flags, paths |-> paths]

\* A command without a row has no role and inherits no privilege.
Neutral == Row({}, {}, {}, "undeclared")

COMMANDS ==
  {Row({"env"}, {"wrapper"}, {"-u", "--unset", "-C", "--chdir", "-S", "--split-string"}, "undeclared"),
   Row({"nice"}, {"wrapper"}, {"-n", "--adjustment"}, "undeclared"),
   Row({"stdbuf"}, {"wrapper"}, {"-i", "--input", "-o", "--output", "-e", "--error"}, "undeclared"),
   Row({"timeout"}, {"wrapper"}, {"-s", "--signal", "-k", "--kill-after"}, "undeclared"),
   Row({"command", "nohup", "setsid"}, {"wrapper"}, {}, "undeclared"),
   Row({"doas"}, {"wrapper", "escalator"}, {"-u", "-C", "-a"}, "undeclared"),
   Row({"sudo"}, {"wrapper", "escalator"},
       {"-u", "--user", "-g", "--group", "-p", "--prompt", "-C", "--close-from",
        "-h", "--host", "-r", "--role", "-t", "--type", "-U", "--other-user"}, "undeclared"),
   Row({"su"}, {"escalator"}, {}, "undeclared"),
   Row({"xargs"}, {}, {"-n", "--max-args", "-P", "--max-procs", "-I", "-d", "--delimiter",
                       "-a", "--arg-file", "-E", "-s", "--max-chars", "-L", "--max-lines"},
       "undeclared"),
   Row({"find"}, {}, {"-name", "-iname", "-path", "-type", "-exec"}, "search-roots"),
   Row({"git"}, {}, {"-C", "-c", "--git-dir", "--work-tree", "--namespace", "--exec-path"},
       "undeclared"),
   Row({"bash", "dash", "ksh", "sh", "zsh"}, {"shell", "interpreter"}, {}, "undeclared"),
   Row({"node", "perl", "python", "python3", "ruby"}, {"interpreter"}, {}, "undeclared"),
   Row({"cat", "du", "grep", "head", "less", "ls", "more", "rg", "stat", "tail", "wc"},
       {"readonly"}, {}, "every"),
   Row({"cut", "diff", "file", "pwd", "sort", "tr", "tree", "uniq", "which"},
       {"readonly"}, {}, "undeclared"),
   Row({"chmod", "chown", "cp", "dd", "ln", "mkdir", "mv", "rm", "rmdir", "shred", "tee",
        "touch", "truncate"}, {"mutating"}, {}, "every"),
   Row({"install"}, {"mutating"}, {}, "undeclared"),
   Row({"curl", "wget"}, {"network", "downloader"}, {}, "undeclared"),
   Row({"ftp", "sftp"}, {"network"}, {}, "undeclared"),
   Row({"rsync", "scp"}, {"network"},
       {"-i", "-e", "-F", "-o", "-l", "-P", "--rsh", "--exclude"}, "undeclared"),
   Row({"nc", "ncat", "netcat", "socat", "ssh", "telnet"},
       {"network", "stdin-forwarder"}, {}, "undeclared"),
   Row({"firewall-cmd", "ip6tables", "iptables", "nft", "pfctl", "ufw"},
       {"firewall"}, {}, "undeclared"),
   Row({"awk", "cd", "sed", "tar", "unzip", "zip"}, {}, {}, "every")}

\* A misspelt role would take a command's privilege, or its ban, away in
\* silence, and so would a second row for the same name.
ASSUME TableAssumption ==
  /\ \A row \in COMMANDS : row.roles \subseteq Role /\ row.paths \in PathArguments
  /\ \A r, s \in COMMANDS : r # s => r.names \cap s.names = {}

SpecFor(executable) ==
  LET rows == {row \in COMMANDS : executable \in row.names}
  IN IF rows = {} THEN Neutral ELSE CHOOSE row \in rows : TRUE

CommandsWithRole(role) == UNION {row.names : row \in {r \in COMMANDS : role \in r.roles}}
=============================================================================
