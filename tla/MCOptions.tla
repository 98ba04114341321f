----------------------------- MODULE MCOptions -----------------------------
EXTENDS Options

MCWords == {"MOUNT", "LUFSD", "dir_cache_ttl", "dir_cache_entries", "DirCacheTTL",
            "DirCacheEntries", "rw_tmp", "ro_root", "fs_ids", "ext_links", "livecdfs", "mount", "quiet"}

MCCommandLines ==
    {<<>>,
     <<<<"rw_tmp", "=", "t">>>>,
     <<<<"dir_cache_ttl", "=", "1">>, <<"dir_cache_ttl", "=", "3">>>>,
     <<<<"quiet">>, <<"dir_cache_entries", "=", "-", "2">>>>,
     <<<<"mount", "=", "m", "=", "n">>, <<"dir_cache_ttl", "=", "0">>>>,
     <<<<"rw_tmp", "=", "t">>, <<"ro_root", "=", "r", "r", "r", "r", "r", "r">>>>}

Says(d, k, v) == <<[domain |-> d, key |-> k, value |-> v]>>
Line(text, says, clipped) == [text |-> text, says |-> says, clipped |-> clipped]

MCLines ==
    {Line(<<"MOUNT", "::", "dir_cache_ttl", "=", "1", "2">>,
          Says(MOUNT, <<"dir_cache_ttl">>, <<"1", "2">>), Says(MOUNT, <<"dir_cache_ttl">>, <<"1">>)),
     Line(<<" ", "MOUNT", "::", " ", "dir_cache_entries", " ", "=", " ", "2", " ">>,
          Says(MOUNT, <<"dir_cache_entries">>, <<"2">>), Says(MOUNT, <<"dir_cache_entries">>, <<"2">>)),
     Line(<<"LUFSD", "::", "DirCacheTTL", "=", "3">>,
          Says(LUFSD, <<"DirCacheTTL">>, <<"3">>), Says(LUFSD, <<"DirCacheTTL">>, <<>>)),
     Line(<<"LUFSD", "::", "DirCacheEntries", "=", "3", " ", "#", "x">>,
          Says(LUFSD, <<"DirCacheEntries">>, <<"3">>), Says(LUFSD, <<"DirCacheEntries">>, <<"3">>)),
     Line(<<"LUFSD", "::", "rw_tmp", "=", "x", "::", "y", "=", "z">>,
          Says(LUFSD, <<"rw_tmp">>, <<"x", "::", "y", "=", "z">>),
          Says(LUFSD, <<"rw_tmp">>, <<"x", "::", "y", "=">>)),
     Line(<<"rw_tmp", "=", "t", "::", "MOUNT", "=", "q">>,
          Says(<<"rw_tmp">>, <<"MOUNT", "=", "q">>, <<"t">>), Says(<<"rw_tmp">>, <<"MOUNT", "=">>, <<"t">>)),
     Line(<<"MOUNT", "::", "rw_tmp", "=">>, Says(MOUNT, <<"rw_tmp">>, <<>>), <<>>),
     Line(<<"#", " ", "MOUNT", "::", "rw_tmp", "=", "t">>, <<>>, <<>>),
     Line(<<"rw_tmp", "=", "t">>, <<>>, <<>>)}
=============================================================================
