----------------------------- MODULE SearchPages -----------------------------
(***************************************************************************)
(* The index of the documentation, as far as SearchResults needs it: the   *)
(* pages of the section All, which has all entries of the other sections,  *)
(* and for comparison the largest of Classes and of Files.  A page is what *)
(* searchData holds: of each row the id and the number of places it leads  *)
(* to.  The names of the places and their links are left out.              *)
(***************************************************************************)
EXTENDS Naturals

all_61 == <<
  <<"accum_5flist_5f", 1>>, <<"accum_5ftime_5f", 1>>, <<"accumulate", 19>>,
  <<"acquiredata", 1>>, <<"adc", 1>>, <<"adddatablock", 2>>,
  <<"adddatablocks", 1>>, <<"addnullpacket", 1>>, <<"addpacket", 1>>,
  <<"addprocess", 1>>, <<"analysis_5fsleep_5ftime", 1>>,
  <<"analysisstructureobject", 1>>, <<"analysisthread_5fsuccess", 1>>,
  <<"analyze", 1>>, <<"app_5ffile", 1>> >>

all_62 == <<
  <<"back_5fedge", 1>>, <<"background", 1>>, <<"big_5fend", 1>>,
  <<"bit_5f32", 1>>, <<"bit_5f64", 1>>, <<"block_5fname_5f", 1>>,
  <<"block_5fname_5ftable_5f", 1>>, <<"blocked", 1>>, <<"bool", 1>>,
  <<"bool_5fval", 1>>, <<"boost", 1>>, <<"bubble_5f", 1>>, <<"buff_5f", 1>>,
  <<"buffer", 1>>, <<"buffer_5fname_5f", 1>>, <<"buffer_5fready_5f", 1>>,
  <<"buffercreate", 1>>, <<"bufferdata", 1>>, <<"bufferdelete", 1>>,
  <<"bufferreadlock", 1>>, <<"buffersize", 1>>, <<"bufferwritelock", 1>>,
  <<"busy_5fwrite_5f", 1>> >>

all_63 == <<
  <<"cast_5fliteral_5fto_5fint64_5fg", 1>>,
  <<"cast_5fliteral_5fto_5fuint64_5fg", 1>>, <<"chan", 3>>,
  <<"changepriority", 1>>, <<"char", 1>>, <<"char_5fval", 1>>,
  <<"classname", 1>>, <<"clear", 2>>, <<"clearerrorlogfile", 1>>,
  <<"clearhistogram", 1>>, <<"clearlogfile", 1>>, <<"clearpacket", 1>>,
  <<"cli_5fmacro", 1>>, <<"cli_5fstate_5f", 1>>, <<"cli_5fstate_5fenum", 1>>,
  <<"close", 1>>, <<"cmd_5fbuffer_5f", 1>>, <<"cmd_5fbuffer_5flock_5f", 1>>,
  <<"command_5ftype", 2>>, <<"commitlog", 2>>, <<"connectionstate", 1>>,
  <<"connecttodaq", 1>>, <<"counter", 1>>, <<"creategetcommand", 1>>,
  <<"createnewhistogram", 5>>, <<"createrunactioncommand", 1>>,
  <<"createsetcommand", 1>>, <<"curr_5fproc_5f", 1>>, <<"currentpacket", 1>>,
  <<"currentpacketposition", 2>>, <<"cycle_5fdetector", 1>>,
  <<"cycle_5fdetector", 1>> >>

all_64 == <<
  <<"daq_5fsleep_5ftime", 1>>, <<"daqthread_5fsuccess", 1>>, <<"data", 2>>,
  <<"data", 1>>, <<"data", 1>>, <<"data_5f", 1>>, <<"data_5fblock", 1>>,
  <<"data_5fblock_5fdebug", 1>>, <<"data_5fblock_5fnames_5f", 1>>,
  <<"data_5fblock_5ftable_5f", 1>>, <<"data_5fblocks_5f", 1>>,
  <<"data_5fin_5f", 1>>, <<"data_5fout_5f", 1>>, <<"data_5ft", 1>>,
  <<"data_5ftype", 2>>, <<"dataarray", 1>>, <<"datablock", 1>>,
  <<"dataoutput", 1>>, <<"datetime", 1>>,
  <<"default_5fpackets_5ffrom_5fsaturation", 1>>,
  <<"default_5fpackets_5fto_5fsaturation", 1>>, <<"deletepacket", 2>>,
  <<"deletetype", 1>>, <<"detectcycles", 1>>, <<"dimension_5f", 1>>,
  <<"disabledatablock", 1>>, <<"display", 2>>,
  <<"display_5fcurrent_5fstate", 1>>, <<"displayhelp", 1>>,
  <<"displaymain", 1>>, <<"displayprocesses", 1>>, <<"double", 1>>,
  <<"double_5fval", 1>>, <<"dynamicgetbool", 1>>, <<"dynamicgetchar", 1>>,
  <<"dynamicgetdouble", 1>>, <<"dynamicgetfloat", 1>>,
  <<"dynamicgetint", 1>>, <<"dynamicgetmsg", 1>>, <<"dynamicrunaction", 1>>,
  <<"dynamicsetbool", 1>>, <<"dynamicsetchar", 1>>,
  <<"dynamicsetdouble", 1>>, <<"dynamicsetfloat", 1>>,
  <<"dynamicsetint", 1>>, <<"dynamicsetmsg", 1>> >>

all_65 == <<
  <<"edge", 1>>, <<"edges_5f", 1>>, <<"enabledatablock", 1>>,
  <<"endian", 1>>, <<"enqueuedynamiccommand", 1>>, <<"erfinv", 2>>,
  <<"errorhandling", 2>>, <<"exit_5fthread_5fflag_5f", 1>> >>

all_66 == <<
  <<"filename_5f", 1>>, <<"finddata", 1>>, <<"finddatablock", 1>>,
  <<"findprocess", 1>>, <<"first_5fpacket_5f", 1>>, <<"float", 1>>,
  <<"float_5fval", 1>>, <<"flushaccumulators", 1>>, <<"flushbuffer", 1>>,
  <<"flushbuffers", 3>>, <<"force_5fquit_5f", 1>>,
  <<"forcequitanalysis", 1>>, <<"forcequitdaq", 1>>, <<"from", 1>> >>

all_67 == <<
  <<"garbagecollection", 2>>, <<"gc_5fmutex_5f", 1>>, <<"get", 1>>,
  <<"get_5faccum_5ftime", 1>>, <<"get_5fblock_5fname", 1>>,
  <<"get_5fbubble", 1>>, <<"get_5fbuffer_5fname", 1>>,
  <<"get_5fbusy_5fwrite", 1>>, <<"get_5fdimension", 1>>,
  <<"get_5fexit_5fthread_5fflag", 1>>, <<"get_5fforce_5fquit", 1>>,
  <<"get_5fhist", 1>>, <<"get_5fhist_5fname", 1>>, <<"get_5fid", 1>>,
  <<"get_5fis_5fdaq", 1>>, <<"get_5fis_5fenabled", 1>>,
  <<"get_5fis_5frunning", 1>>, <<"get_5flast_5fadjustment_5ffrom_5fsat", 1>>,
  <<"get_5flast_5fadjustment_5fto_5fsat", 1>>, <<"get_5fleading_5fedge", 1>>,
  <<"get_5flock_5f", 1>>, <<"get_5fmem_5fmngr", 1>>, <<"get_5fname", 2>>,
  <<"get_5fnum_5faccum_5fbuff", 1>>,
  <<"get_5fnum_5fpackets_5ffrom_5fsat", 1>>,
  <<"get_5fnum_5fpackets_5fto_5fsat", 1>>, <<"get_5fobjs_5fand_5flinks", 1>>,
  <<"get_5fp_5fdaq", 1>>, <<"get_5fpacket_5fscale_5ffactor", 1>>,
  <<"get_5fprocesses", 1>>, <<"get_5frate_5fmode", 1>>, <<"get_5freg", 1>>,
  <<"get_5frun_5fflag", 1>>, <<"get_5fsleeping", 1>>, <<"get_5ft0", 1>>,
  <<"get_5ft1", 1>>, <<"get_5ft2", 1>>, <<"get_5fthread_5fid", 1>>,
  <<"get_5fticks_5fper_5fsec", 1>>, <<"get_5fts0", 1>>,
  <<"get_5fwriter", 1>>, <<"get_5fwriter_5fname", 1>>,
  <<"get_5fxml_5fpath", 1>>, <<"getdatasize", 1>>, <<"gethistogram", 1>>,
  <<"gethistogramlist", 1>>, <<"gethistogramplist", 1>>,
  <<"gethistogramslot", 1>>, <<"getlogfilename", 1>>,
  <<"getlogfilepath", 1>>, <<"getloglevel", 1>>, <<"getobjectname", 1>>,
  <<"getprocessed", 1>>, <<"getreaderlist", 1>>, <<"gets", 1>>,
  <<"gets_5f", 1>>, <<"gettypelist", 1>>, <<"grabbuffer", 1>>,
  <<"graph", 1>>, <<"griaccumbuff", 2>>, <<"griaccumbuff_2eh", 1>>,
  <<"grianalysisthread", 2>>, <<"grianalysisthread_2ecpp", 1>>,
  <<"grianalysisthread_2eh", 1>>, <<"gribuffer", 2>>,
  <<"gribuffer_2ecpp", 1>>, <<"gribuffer_2eh", 1>>, <<"gricli", 2>>,
  <<"gricli_2ecpp", 1>>, <<"gricli_2eh", 1>>, <<"gricommandandcontrol", 3>>,
  <<"gridaqaccumnode", 1>>, <<"gridaqaccumnode_2eh", 1>>,
  <<"gridaqaccumulator", 2>>, <<"gridaqaccumulator_2eh", 1>>,
  <<"gridaqbaseaccumnode", 1>>, <<"gridaqbaseaccumnode_2eh", 1>>,
  <<"gridaqthread", 2>>, <<"gridaqthread_2ecpp", 1>>,
  <<"gridaqthread_2eh", 1>>, <<"gridatablock", 4>>,
  <<"gridatablock_2ecpp", 1>>, <<"gridatablock_2eh", 1>>,
  <<"gridatadefines_2eh", 1>>, <<"gridatadefines_5faux_2eh", 1>>,
  <<"gridatadefines_5faux_5fh", 1>>, <<"gridefines_2eh", 1>>,
  <<"grif_5fproject_5ffile_5fpath_5f", 1>>, <<"grihist1d", 2>>,
  <<"grihist1d_2ecpp", 1>>, <<"grihist1d_2eh", 1>>, <<"grihist2d", 2>>,
  <<"grihist2d_2ecpp", 1>>, <<"grihist2d_2eh", 1>>, <<"grihistogrammer", 2>>,
  <<"grihistogrammer_2ecpp", 1>>, <<"grihistogrammer_2eh", 1>>,
  <<"griloader", 2>>, <<"griloader_2ecpp", 1>>, <<"griloader_2eh", 1>>,
  <<"griloader_5faux_2eh", 1>>, <<"grilog_5fdebug", 1>>,
  <<"grilog_5ferror", 1>>, <<"grilog_5fmessage", 1>>,
  <<"grilog_5fverbose", 1>>, <<"grilog_5fwarning", 1>>, <<"grilogger", 2>>,
  <<"grilogger_2ecpp", 1>>, <<"grilogger_2eh", 1>>, <<"grilogmessage", 2>>,
  <<"grilogmessage_2ecpp", 1>>, <<"grilogmessage_2eh", 1>>,
  <<"grimath_2ecpp", 1>>, <<"grimath_2eh", 1>>, <<"grimemorymanager", 3>>,
  <<"grimemorymanager_2ecpp", 1>>, <<"grimemorymanager_2eh", 1>>,
  <<"griobject", 2>>, <<"griobject_2ecpp", 1>>, <<"griobject_2eh", 1>>,
  <<"griparser", 1>>, <<"griparser_2ecpp", 1>>, <<"griparser_2eh", 1>>,
  <<"griprocessthread", 3>>, <<"griprocessthread_2ecpp", 1>>,
  <<"griprocessthread_2eh", 1>>, <<"griproclist", 2>>,
  <<"griproclist_2ecpp", 1>>, <<"griproclist_2eh", 1>>,
  <<"griregulator", 3>>, <<"griregulator_2ecpp", 1>>,
  <<"griregulator_2eh", 1>>, <<"griserver", 2>>, <<"griserver_2eh", 1>>,
  <<"gritcpsocket", 2>>, <<"gritcpsocket_2eh", 1>>, <<"grithread", 2>>,
  <<"grithread_2ecpp", 1>>, <<"grithread_2eh", 1>>, <<"griuserloader", 2>>,
  <<"griuserloader_2ecpp", 1>>, <<"griuserloader_2eh", 1>>,
  <<"griuserloader_5faux_2eh", 1>>, <<"griuserprocesses_2eh", 1>>,
  <<"griuserprocesses_5faux_2eh", 1>> >>

all_68 == <<
  <<"handledynamiccommand", 1>>, <<"handlegetrequest", 1>>,
  <<"handlemacrodef", 1>>, <<"handlemacroexecution", 1>>,
  <<"handlemain", 1>>, <<"handleprocesstop", 1>>, <<"handlesetrequest", 1>>,
  <<"has_5fcycle_5f", 1>>, <<"hist_5f", 1>>, <<"hist_5farray_5f", 1>>,
  <<"hist_5fname_5f", 1>> >>

all_69 == <<
  <<"id_5f", 1>>, <<"if", 1>>, <<"incrementpacketcount", 1>>,
  <<"incrementpacketmarker", 1>>, <<"init", 4>>, <<"initconfig", 1>>,
  <<"initialize", 4>>, <<"initializeaccumulators", 1>>,
  <<"initializetime", 4>>, <<"initregulatordetails", 1>>,
  <<"inserttype", 1>>, <<"int", 1>>, <<"int16_5fg", 1>>, <<"int32_5fg", 1>>,
  <<"int64_5fg", 1>>, <<"int8_5fg", 1>>, <<"int_5fval", 1>>,
  <<"is_5fdaq_5f", 1>>, <<"is_5fenabled_5f", 1>>, <<"is_5fready_5f", 1>>,
  <<"is_5frunning_5f", 1>>, <<"isdaq", 1>>, <<"islevelenabled", 2>>,
  <<"isnullpacket", 1>> >>

all_6b == <<
  <<"key", 1>> >>

all_6c == <<
  <<"last_5fadjustment_5ffrom_5fsat_5f", 1>>,
  <<"last_5fadjustment_5fto_5fsat_5f", 1>>, <<"lastpacket", 2>>,
  <<"launch", 1>>, <<"leading_5fedge_5f", 1>>, <<"level", 1>>,
  <<"linkparsingdetails", 1>>, <<"links", 1>>, <<"linux", 1>>,
  <<"little_5fend", 1>>, <<"load", 2>>, <<"load_5fbalancing_5ffactor", 1>>,
  <<"loadbalancing", 1>>, <<"loadconfiguration", 1>>, <<"locatebuffer", 2>>,
  <<"locatedatablock", 1>>, <<"lock_5f", 1>>, <<"lock_5ftable_5f", 1>>,
  <<"log", 2>>, <<"log_5flevel_5f", 1>>, <<"log_5fmsg_5f", 1>>,
  <<"logfilepath_5f", 1>>, <<"logger_5f", 2>>, <<"logmsg", 1>>,
  <<"logsignal", 1>> >>

all_6d == <<
  <<"mac", 1>>, <<"macro_5fhash_5f", 1>>, <<"main", 1>>,
  <<"marker_5flist_5f", 1>>, <<"max", 1>>, <<"max_5fthreshold", 1>>,
  <<"mem_5fmngr_5f", 1>>, <<"min", 1>>, <<"mm_5f", 1>>, <<"msgstr", 1>>,
  <<"mutex_5f", 2>> >>

all_6e == <<
  <<"name", 3>>, <<"name_5f", 1>>, <<"name_5ftable_5f", 1>>,
  <<"newconnection", 1>>, <<"nextpacket", 1>>, <<"node_5findex_5f", 1>>,
  <<"null_5fpackets_5f", 1>>, <<"num_5faccum_5fbuff_5f", 1>>,
  <<"num_5fpackets_5ffrom_5fsat_5f", 1>>,
  <<"num_5fpackets_5fto_5fsat_5f", 1>> >>

all_6f == <<
  <<"obj_5f", 1>>, <<"object_5fhash_5f", 1>>, <<"object_5fname_5f", 1>>,
  <<"objectname", 1>>, <<"objectparsingdetails", 1>>,
  <<"objs_5fand_5flinks_5f", 1>>, <<"openinitializationcontrol", 3>>,
  <<"openruntimecontrol", 2>>, <<"output", 2>> >>

all_70 == <<
  <<"p_5fdaq_5f", 1>>, <<"packet_5flist_5f", 1>>,
  <<"packet_5fscale_5ffactor_5f", 1>>, <<"packetsize", 1>>, <<"parse", 1>>,
  <<"pause", 1>>, <<"peak", 1>>, <<"port_5f", 1>>, <<"postdata", 2>>,
  <<"proc_5fenviron_5f", 1>>, <<"process", 1>>, <<"process_5fdetails", 1>>,
  <<"process_5fhash_5f", 1>>, <<"process_5fmap_5f", 1>>,
  <<"process_5fthread_5fdebug", 1>>, <<"process_5ftop", 1>>,
  <<"processaction", 1>>, <<"processcommand", 1>>, <<"processdetails", 1>>,
  <<"processes_5f", 2>>, <<"processget", 1>>, <<"processset", 1>> >>

all_71 == <<
  <<"quit", 1>>, <<"quitdaq", 1>> >>

all_72 == <<
  <<"rate", 2>>, <<"rate_5fhist_5f", 1>>, <<"rate_5fmode_5f", 1>>,
  <<"read_5fcounter", 1>>, <<"read_5fdata_5fptrs_5f", 2>>,
  <<"readbuffer", 1>>, <<"readdata", 1>>, <<"reader", 2>>,
  <<"reader_5fdata", 1>>, <<"reader_5fname", 1>>, <<"reader_5ft", 1>>,
  <<"readerdataobject", 1>>, <<"readers_5f", 1>>,
  <<"readgarbagecollection", 1>>, <<"readmemory", 4>>, <<"ready", 2>>,
  <<"receiveprocessget", 1>>, <<"reg_5f", 2>>, <<"registeraccumulator", 2>>,
  <<"registerdataoutput", 1>>, <<"regulator_5f", 1>>,
  <<"regulator_5fdebug", 1>>, <<"removenullpacket", 1>>,
  <<"resetaccumbuffs", 3>>, <<"resetbuffer", 1>>, <<"resume", 1>>,
  <<"retrievedata", 1>>, <<"retrievegets", 1>>, <<"retrievelist", 1>>,
  <<"retrieverunactions", 1>>, <<"retrievesets", 1>>, <<"run", 4>>,
  <<"run_5faction", 1>>, <<"run_5factions", 1>>, <<"run_5factions_5f", 1>>,
  <<"run_5fflag_5f", 1>> >>

all_73 == <<
  <<"samplegauss", 4>>, <<"senddata", 1>>, <<"sendhistogram", 1>>,
  <<"set", 1>>, <<"set_5faccum_5ftime", 1>>, <<"set_5fbubble", 1>>,
  <<"set_5fbuffer_5fname", 1>>, <<"set_5fbusy_5fwrite", 1>>,
  <<"set_5fexit_5fthread_5fflag", 1>>, <<"set_5fforce_5fquit", 1>>,
  <<"set_5fhist_5fname", 1>>, <<"set_5fis_5fdaq", 1>>,
  <<"set_5fis_5fenabled", 1>>, <<"set_5fis_5frunning", 1>>,
  <<"set_5fleading_5fedge", 1>>, <<"set_5fload_5fbalancing_5fvars", 1>>,
  <<"set_5fmem_5fmngr", 1>>, <<"set_5fname", 2>>,
  <<"set_5fnum_5faccum_5fbuff", 1>>, <<"set_5fp_5fdaq", 1>>,
  <<"set_5fpacket_5fscale_5ffactor", 1>>, <<"set_5fport", 1>>,
  <<"set_5frate_5fmode", 1>>, <<"set_5freg", 1>>, <<"set_5frun_5fflag", 1>>,
  <<"set_5fsleeping", 1>>, <<"set_5ft0", 1>>,
  <<"set_5fticks_5fper_5fsec", 1>>, <<"set_5fts0", 1>>, <<"setbins", 4>>,
  <<"setdefaultdetail", 1>>, <<"sethistpacketscalefactor", 1>>,
  <<"sethistratemode", 1>>, <<"setlink", 2>>, <<"setloglevel", 1>>,
  <<"setmessagetime", 1>>, <<"setobjectname", 1>>, <<"setpacketmarker", 1>>,
  <<"setpacketposition", 2>>, <<"setroothistname", 1>>, <<"sets", 1>>,
  <<"sets_5f", 1>>, <<"settimestring", 1>>, <<"sigma", 1>>, <<"size_5f", 1>>,
  <<"sizeofbuffer", 2>>, <<"sizeofpacket", 2>>, <<"sleeping_5f", 1>>,
  <<"start", 1>>, <<"startcollection", 1>>, <<"startdataacquisition", 1>>,
  <<"startthreads", 1>>, <<"state_5f", 1>>, <<"stop", 1>>,
  <<"stopcollection", 1>>, <<"stopdataacquisition", 1>>,
  <<"system_5fendian", 1>> >>

all_74 == <<
  <<"t0_5f", 1>>, <<"t1_5f", 1>>, <<"t2_5f", 1>>, <<"temp", 1>>,
  <<"terminationroutines", 1>>, <<"thread_5fid_5f", 1>>,
  <<"thread_5flist_5f", 1>>, <<"ticks_5fper_5fsec_5f", 1>>, <<"time", 1>>,
  <<"time_5f", 1>>, <<"timer_5f", 1>>, <<"to", 1>>, <<"ts0_5f", 1>> >>

all_75 == <<
  <<"uint16_5fg", 1>>, <<"uint32_5fg", 1>>, <<"uint64_5fg", 1>>,
  <<"uint8_5fg", 1>>, <<"unlockbuffer", 1>>, <<"update", 5>>,
  <<"updategraph", 1>>, <<"updatehistogram", 3>>, <<"updatereader", 1>>,
  <<"updatewriter", 1>> >>

all_76 == <<
  <<"value", 1>> >>

all_77 == <<
  <<"wait_5fqueue_5f", 1>>, <<"waiting", 1>>, <<"waitonqueue", 1>>,
  <<"wakeallonqueue", 1>>, <<"wakeoneonqueue", 1>>, <<"windows", 1>>,
  <<"write_5fcounter_5f", 1>>, <<"writeerrorlogfile", 4>>,
  <<"writelogfile", 5>>, <<"writememory", 4>>, <<"writer", 1>>,
  <<"writer_5f", 1>>, <<"writer_5fname_5f", 1>>, <<"writetobuffer", 1>>,
  <<"writetologfile", 1>> >>

all_78 == <<
  <<"xml_5fpath", 1>>, <<"xml_5fpath_5f", 1>> >>

all_7e == <<
  <<"_7egriaccumbuff", 1>>, <<"_7egrianalysisthread", 1>>,
  <<"_7egribuffer", 1>>, <<"_7egricli", 1>>, <<"_7egridaqaccumulator", 1>>,
  <<"_7egridaqthread", 1>>, <<"_7egridatablock", 1>>, <<"_7egrihist1d", 1>>,
  <<"_7egrihist2d", 1>>, <<"_7egrihistogrammer", 1>>, <<"_7egriloader", 1>>,
  <<"_7egrilogger", 1>>, <<"_7egrilogmessage", 1>>,
  <<"_7egrimemorymanager", 1>>, <<"_7egriobject", 1>>,
  <<"_7egriprocessthread", 1>>, <<"_7egriregulator", 1>>,
  <<"_7egriserver", 1>>, <<"_7egrithread", 1>>, <<"_7egriuserloader", 1>> >>

files_67 == <<
  <<"griaccumbuff_2eh", 1>>, <<"grianalysisthread_2ecpp", 1>>,
  <<"grianalysisthread_2eh", 1>>, <<"gribuffer_2ecpp", 1>>,
  <<"gribuffer_2eh", 1>>, <<"gricli_2ecpp", 1>>, <<"gricli_2eh", 1>>,
  <<"gridaqaccumnode_2eh", 1>>, <<"gridaqaccumulator_2eh", 1>>,
  <<"gridaqbaseaccumnode_2eh", 1>>, <<"gridaqthread_2ecpp", 1>>,
  <<"gridaqthread_2eh", 1>>, <<"gridatablock_2ecpp", 1>>,
  <<"gridatablock_2eh", 1>>, <<"gridatadefines_2eh", 1>>,
  <<"gridatadefines_5faux_2eh", 1>>, <<"gridefines_2eh", 1>>,
  <<"grihist1d_2ecpp", 1>>, <<"grihist1d_2eh", 1>>, <<"grihist2d_2ecpp", 1>>,
  <<"grihist2d_2eh", 1>>, <<"grihistogrammer_2ecpp", 1>>,
  <<"grihistogrammer_2eh", 1>>, <<"griloader_2ecpp", 1>>,
  <<"griloader_2eh", 1>>, <<"griloader_5faux_2eh", 1>>,
  <<"grilogger_2ecpp", 1>>, <<"grilogger_2eh", 1>>,
  <<"grilogmessage_2ecpp", 1>>, <<"grilogmessage_2eh", 1>>,
  <<"grimath_2ecpp", 1>>, <<"grimath_2eh", 1>>,
  <<"grimemorymanager_2ecpp", 1>>, <<"grimemorymanager_2eh", 1>>,
  <<"griobject_2ecpp", 1>>, <<"griobject_2eh", 1>>, <<"griparser_2ecpp", 1>>,
  <<"griparser_2eh", 1>>, <<"griprocessthread_2ecpp", 1>>,
  <<"griprocessthread_2eh", 1>>, <<"griproclist_2ecpp", 1>>,
  <<"griproclist_2eh", 1>>, <<"griregulator_2ecpp", 1>>,
  <<"griregulator_2eh", 1>>, <<"griserver_2eh", 1>>,
  <<"gritcpsocket_2eh", 1>>, <<"grithread_2ecpp", 1>>,
  <<"grithread_2eh", 1>>, <<"griuserloader_2ecpp", 1>>,
  <<"griuserloader_2eh", 1>>, <<"griuserloader_5faux_2eh", 1>>,
  <<"griuserprocesses_2eh", 1>>, <<"griuserprocesses_5faux_2eh", 1>> >>

classes_67 == <<
  <<"griaccumbuff", 1>>, <<"grianalysisthread", 1>>, <<"gribuffer", 1>>,
  <<"gricli", 1>>, <<"gridaqaccumnode", 1>>, <<"gridaqaccumulator", 1>>,
  <<"gridaqbaseaccumnode", 1>>, <<"gridaqthread", 1>>, <<"gridatablock", 1>>,
  <<"grihist1d", 1>>, <<"grihist2d", 1>>, <<"grihistogrammer", 1>>,
  <<"griloader", 1>>, <<"grilogger", 1>>, <<"grilogmessage", 1>>,
  <<"grimemorymanager", 1>>, <<"griobject", 1>>, <<"griparser", 1>>,
  <<"griprocessthread", 1>>, <<"griproclist", 1>>, <<"griregulator", 1>>,
  <<"griserver", 1>>, <<"gritcpsocket", 1>>, <<"grithread", 1>>,
  <<"griuserloader", 1>> >>

\* The pages by the names of their files.
SearchPages == [
  all_61 |-> all_61, all_62 |-> all_62, all_63 |-> all_63,
  all_64 |-> all_64, all_65 |-> all_65, all_66 |-> all_66,
  all_67 |-> all_67, all_68 |-> all_68, all_69 |-> all_69,
  all_6b |-> all_6b, all_6c |-> all_6c, all_6d |-> all_6d,
  all_6e |-> all_6e, all_6f |-> all_6f, all_70 |-> all_70,
  all_71 |-> all_71, all_72 |-> all_72, all_73 |-> all_73,
  all_74 |-> all_74, all_75 |-> all_75, all_76 |-> all_76,
  all_77 |-> all_77, all_78 |-> all_78, all_7e |-> all_7e,
  files_67 |-> files_67, classes_67 |-> classes_67 ]
=============================================================================
